---- MODULE Spec2Model ----
(***************************************************************************)
(* Ford-Fulkerson core (algorithms/ford_fulkerson/ff_core.py) as a state   *)
(* machine: a graph description is validated, built into capacity and     *)
(* flow maps, handed to FordFulkersonAlgorithm and run to completion.      *)
(*                                                                         *)
(* Python dictionaries keep insertion order and the search iterates over   *)
(* them, so a dict is modelled as a sequence of <<key, value>> pairs in    *)
(* insertion order; a nested dict is a dict whose values are dicts.        *)
(***************************************************************************)
EXTENDS Integers, Sequences, FiniteSets, TLC

VARIABLES
    graph_data,      \* the graph description handed to the core
    pc,              \* position in the pipeline validate/build/construct/run
    is_valid,        \* GraphValidator.validate result, first component
    message,         \* GraphValidator.validate result, second component
    graph,           \* GraphBuilder.from_edges result: capacities
    initial_flow,    \* GraphBuilder.from_edges result: seeded flows
    original_graph,  \* FordFulkersonAlgorithm.original_graph
    source,          \* FordFulkersonAlgorithm.source
    sink,            \* FordFulkersonAlgorithm.sink
    flow,            \* FordFulkersonAlgorithm.flow (mutated in place)
    steps,           \* FordFulkersonAlgorithm.steps
    max_flow,        \* local of run()
    iteration,       \* local of run()
    residual,        \* local of run()
    path,            \* local of run()
    bottleneck,      \* local of run()
    returned,        \* value returned by run(), None before it returns
    call,            \* a direct call of one of the static methods: its arguments
    result,          \* what that call returned, None before it returns
    session,         \* st.session_state of the user interface
    accepted,        \* the description GraphValidator.validate accepted last
    clicks           \* the number of button clicks in the session

runVars == <<graph_data, pc, is_valid, message, graph, initial_flow,
             original_graph, source, sink, flow, steps, max_flow, iteration,
             residual, path, bottleneck, returned>>

callVars == <<call, result>>

uiVars == <<session, accepted, clicks>>

otherVars == <<callVars, uiVars>>

vars == <<runVars, callVars, uiVars>>

(***************************************************************************)
(* Bounds of the model.                                                    *)
(***************************************************************************)
MaxCap == 2          \* the largest capacity of the generated networks
MaxValEdges == 2     \* length of the edge lists given to the validator alone

(***************************************************************************)
(* Python values.                                                          *)
(***************************************************************************)
None == "<None>"
Inf == 1000000       \* float('inf'): larger than every capacity sum here

(***************************************************************************)
(* Insertion-ordered dictionaries.                                         *)
(***************************************************************************)
EmptyDict == <<>>

KeySet(d) == {d[i][1] : i \in 1..Len(d)}

Has(d, k) == \E i \in 1..Len(d) : d[i][1] = k

Lookup(d, k) == d[CHOOSE i \in 1..Len(d) : d[i][1] = k][2]

\* d[k] = v : an existing key keeps its position, a new key goes last
Store(d, k, v) ==
    IF Has(d, k)
    THEN [i \in 1..Len(d) |-> IF d[i][1] = k THEN <<k, v>> ELSE d[i]]
    ELSE Append(d, <<k, v>>)

\* d[u][v] = x on a dict of dicts (the defaultdict creates the row)
Store2(d, u, v, x) ==
    Store(d, u, Store(IF Has(d, u) THEN Lookup(d, u) ELSE EmptyDict, v, x))

Has2(d, u, v) == Has(d, u) /\ Has(Lookup(d, u), v)

Lookup2(d, u, v) == Lookup(Lookup(d, u), v)

\* the (u, v) pairs of a dict of dicts, in iteration order
RECURSIVE EdgeSeq(_)
EdgeSeq(d) ==
    IF d = <<>> THEN <<>>
    ELSE [i \in 1..Len(d[1][2]) |-> <<d[1][1], d[1][2][i][1]>>] \o EdgeSeq(Tail(d))

EdgeSet(d) == {EdgeSeq(d)[i] : i \in 1..Len(EdgeSeq(d))}

Range(s) == {s[i] : i \in 1..Len(s)}

Min(a, b) == IF a <= b THEN a ELSE b

(***************************************************************************)
(* GraphValidator.validate.  A description is a mapping with keys among    *)
(* "nodes", "edges", "source", "sink"; dict.get gives None (or the given   *)
(* default) for a missing key.  A message is the tuple of its fixed text    *)
(* and the values the code formats into it.                                *)
(***************************************************************************)
Get(d, k, default) == IF k \in DOMAIN d THEN d[k] ELSE default

Falsy(x) == x = None \/ x = ""

\* the checks of the loop body for one edge: <<ok, message>>
validate_edge(edge, nodes) ==
    IF Len(edge) \notin {3, 4}
    THEN <<FALSE, <<"Invalid edge format", edge>>>>
    ELSE LET u == edge[1]
             v == edge[2]
             capacity == edge[3]
             init_flow == IF Len(edge) = 3 THEN 0 ELSE edge[4]
         IN  IF u \notin nodes
             THEN <<FALSE, <<"Edge references unknown node", u>>>>
             ELSE IF v \notin nodes
             THEN <<FALSE, <<"Edge references unknown node", v>>>>
             ELSE IF capacity <= 0
             THEN <<FALSE, <<"Edge has non-positive capacity", u, v, capacity>>>>
             ELSE IF init_flow < 0
             THEN <<FALSE, <<"Edge has negative initial flow", u, v, init_flow>>>>
             ELSE IF init_flow > capacity
             THEN <<FALSE, <<"Edge has flow exceeding capacity", u, v, init_flow, capacity>>>>
             ELSE <<TRUE, <<>>>>

RECURSIVE validate_edges(_, _, _)
validate_edges(edges, i, nodes) ==
    IF i > Len(edges) THEN <<TRUE, <<"Graph is valid">>>>
    ELSE LET r == validate_edge(edges[i], nodes)
         IN  IF r[1] THEN validate_edges(edges, i + 1, nodes) ELSE r

\* mutant: source and sink are looked up in nodes before they are compared
validate_membership_first(gd) ==
    IF Falsy(Get(gd, "source", None)) \/ Falsy(Get(gd, "sink", None))
    THEN <<FALSE, <<"Source or sink node not specified">>>>
    ELSE LET nodes == Range(Get(gd, "nodes", <<>>))
             edges == Get(gd, "edges", <<>>)
         IN  IF gd["source"] \notin nodes
             THEN <<FALSE, <<"Source node not found in graph", gd["source"]>>>>
             ELSE IF gd["sink"] \notin nodes
             THEN <<FALSE, <<"Sink node not found in graph", gd["sink"]>>>>
             ELSE IF gd["source"] = gd["sink"]
             THEN <<FALSE, <<"Source and sink must be different nodes">>>>
             ELSE IF edges = <<>>
             THEN <<FALSE, <<"Graph has no edges">>>>
             ELSE validate_edges(edges, 1, nodes)

GraphValidator_validate(gd) ==
    IF Falsy(Get(gd, "source", None)) \/ Falsy(Get(gd, "sink", None))
    THEN <<FALSE, <<"Source or sink node not specified">>>>
    ELSE IF gd["source"] = gd["sink"]
    THEN <<FALSE, <<"Source and sink must be different nodes">>>>
    ELSE LET nodes == Range(Get(gd, "nodes", <<>>))
             edges == Get(gd, "edges", <<>>)
         IN  IF gd["source"] \notin nodes
             THEN <<FALSE, <<"Source node not found in graph", gd["source"]>>>>
             ELSE IF gd["sink"] \notin nodes
             THEN <<FALSE, <<"Sink node not found in graph", gd["sink"]>>>>
             ELSE IF edges = <<>>
             THEN <<FALSE, <<"Graph has no edges">>>>
             ELSE validate_edges(edges, 1, nodes)

(***************************************************************************)
(* GraphBuilder.from_edges: <<graph, flow>> from an edge list.             *)
(***************************************************************************)
\* mutant: the first entry for a pair is kept
RECURSIVE from_edges_loop_first(_, _, _, _)
from_edges_loop_first(edges_list, i, g, f) ==
    IF i > Len(edges_list) THEN <<g, f>>
    ELSE LET edge == edges_list[i]
             init_flow == IF Len(edge) = 3 THEN 0 ELSE edge[4]
         IN  IF Has2(g, edge[1], edge[2])
             THEN from_edges_loop_first(edges_list, i + 1, g, f)
             ELSE from_edges_loop_first(edges_list, i + 1,
                      Store2(g, edge[1], edge[2], edge[3]),
                      Store2(f, edge[1], edge[2], init_flow))

RECURSIVE from_edges_loop(_, _, _, _)
from_edges_loop(edges_list, i, g, f) ==
    IF i > Len(edges_list) THEN <<g, f>>
    ELSE LET edge == edges_list[i]
             init_flow == IF Len(edge) = 3 THEN 0 ELSE edge[4]
         IN  from_edges_loop(edges_list, i + 1,
                             Store2(g, edge[1], edge[2], edge[3]),
                             Store2(f, edge[1], edge[2], init_flow))

GraphBuilder_from_edges(edges_list) ==
    from_edges_loop(edges_list, 1, EmptyDict, EmptyDict)

(***************************************************************************)
(* ResidualGraph.compute: forward edges with remaining capacity.           *)
(***************************************************************************)
\* mutant: an edge with no remaining capacity is kept (>= for >)
RECURSIVE compute_row_ge(_, _, _, _, _)
compute_row_ge(g, f, u, j, res) ==
    LET row == Lookup(g, u) IN
    IF j > Len(row) THEN res
    ELSE LET v == row[j][1]
             capacity == row[j][2]
             current_flow == IF Has(f, u) /\ Has(Lookup(f, u), v)
                             THEN Lookup2(f, u, v) ELSE 0
             remaining == capacity - current_flow
         IN  compute_row_ge(g, f, u, j + 1,
                            IF remaining >= 0 THEN Store2(res, u, v, remaining)
                            ELSE res)

RECURSIVE compute_row(_, _, _, _, _)
compute_row(g, f, u, j, res) ==
    LET row == Lookup(g, u) IN
    IF j > Len(row) THEN res
    ELSE LET v == row[j][1]
             capacity == row[j][2]
             current_flow == IF Has(f, u) /\ Has(Lookup(f, u), v)
                             THEN Lookup2(f, u, v) ELSE 0
             remaining == capacity - current_flow
         IN  compute_row(g, f, u, j + 1,
                         IF remaining > 0 THEN Store2(res, u, v, remaining)
                         ELSE res)

RECURSIVE compute_loop(_, _, _, _)
compute_loop(g, f, i, res) ==
    IF i > Len(g) THEN res
    ELSE compute_loop(g, f, i + 1, compute_row(g, f, g[i][1], 1, res))

ResidualGraph_compute(g, f) == compute_loop(g, f, 1, EmptyDict)

(***************************************************************************)
(* PathFinder.  parent is a mapping from the visited nodes to their BFS    *)
(* parent (None for the source).                                           *)
(***************************************************************************)
\* mutant: the loop stops after the first neighbour it enqueues
RECURSIVE bfs_neighbors_first(_, _, _, _)
bfs_neighbors_first(row, j, u, st) ==
    IF j > Len(row) THEN st
    ELSE LET v == row[j][1] IN
         IF v \notin st.visited /\ row[j][2] > 0
         THEN [queue   |-> Append(st.queue, v),
               visited |-> st.visited \cup {v},
               parent  |-> st.parent @@ (v :> u)]
         ELSE bfs_neighbors_first(row, j + 1, u, st)

\* mutant: an entry of capacity 0 counts as an edge
RECURSIVE bfs_neighbors_zero(_, _, _, _)
bfs_neighbors_zero(row, j, u, st) ==
    IF j > Len(row) THEN st
    ELSE LET v == row[j][1] IN
         IF v \notin st.visited /\ row[j][2] >= 0
         THEN bfs_neighbors_zero(row, j + 1, u,
                  [queue   |-> Append(st.queue, v),
                   visited |-> st.visited \cup {v},
                   parent  |-> st.parent @@ (v :> u)])
         ELSE bfs_neighbors_zero(row, j + 1, u, st)

\* the for loop over residual_graph[u]: st = [queue, visited, parent]
RECURSIVE bfs_neighbors(_, _, _, _)
bfs_neighbors(row, j, u, st) ==
    IF j > Len(row) THEN st
    ELSE LET v == row[j][1] IN
         IF v \notin st.visited /\ row[j][2] > 0
         THEN bfs_neighbors(row, j + 1, u,
                  [queue   |-> Append(st.queue, v),
                   visited |-> st.visited \cup {v},
                   parent  |-> st.parent @@ (v :> u)])
         ELSE bfs_neighbors(row, j + 1, u, st)

\* the while loop over the queue
RECURSIVE bfs_loop(_, _, _)
bfs_loop(residual_graph, snk, st) ==
    IF st.queue = <<>> THEN <<FALSE, st.parent>>
    ELSE LET u == Head(st.queue)
             popped == [st EXCEPT !.queue = Tail(st.queue)]
         IN  IF u = snk THEN <<TRUE, st.parent>>
             ELSE IF Has(residual_graph, u)
             THEN bfs_loop(residual_graph, snk,
                           bfs_neighbors(Lookup(residual_graph, u), 1, u, popped))
             ELSE bfs_loop(residual_graph, snk, popped)

\* mutant: a search that starts at the sink reports no path
bfs_find_path_apart(residual_graph, src, snk) ==
    IF src = snk THEN <<FALSE, (src :> None)>>
    ELSE bfs_loop(residual_graph, snk,
                  [queue |-> <<src>>, visited |-> {src}, parent |-> (src :> None)])

PathFinder_bfs_find_path(residual_graph, src, snk) ==
    bfs_loop(residual_graph, snk,
             [queue |-> <<src>>, visited |-> {src}, parent |-> (src :> None)])

Reverse(s) == [i \in 1..Len(s) |-> s[Len(s) + 1 - i]]

\* the while loop of reconstruct_path; parent.get gives None for a missing key
RECURSIVE reconstruct_loop(_, _, _)
reconstruct_loop(parent, current, acc) ==
    IF current = None THEN acc
    ELSE reconstruct_loop(parent,
                          IF current \in DOMAIN parent THEN parent[current] ELSE None,
                          Append(acc, current))

PathFinder_reconstruct_path(parent, src, snk) ==
    Reverse(reconstruct_loop(parent, snk, <<>>))

\* residual_graph[u][v] on the defaultdict of defaultdict(int): 0 when absent
ResidualAt(residual_graph, u, v) ==
    IF Has2(residual_graph, u, v) THEN Lookup2(residual_graph, u, v) ELSE 0

\* mutant: the capacity of the first edge of the path, not the minimum
compute_bottleneck_first(p, residual_graph) ==
    IF Len(p) < 2 THEN Inf ELSE ResidualAt(residual_graph, p[1], p[2])

\* mutant: the capacity of the edge last looked at replaces the running minimum
RECURSIVE bottleneck_loop_last(_, _, _, _)
bottleneck_loop_last(p, residual_graph, i, acc) ==
    IF i > Len(p) - 1 THEN acc
    ELSE bottleneck_loop_last(p, residual_graph, i + 1,
                              ResidualAt(residual_graph, p[i], p[i + 1]))

RECURSIVE bottleneck_loop(_, _, _, _)
bottleneck_loop(p, residual_graph, i, acc) ==
    IF i > Len(p) - 1 THEN acc
    ELSE bottleneck_loop(p, residual_graph, i + 1,
                         Min(acc, ResidualAt(residual_graph, p[i], p[i + 1])))

\* mutant: one unit whatever the path leaves room for
compute_bottleneck_unit(p, residual_graph) ==
    IF Len(p) < 2 THEN Inf ELSE 1

\* mutant: the running minimum starts from 0, not from infinity
compute_bottleneck_zero(p, residual_graph) ==
    bottleneck_loop(p, residual_graph, 1, 0)

PathFinder_compute_bottleneck(p, residual_graph) ==
    bottleneck_loop(p, residual_graph, 1, Inf)

(***************************************************************************)
(* MinimumCut.find.  source_partition is a Python set, whose iteration     *)
(* order is not fixed by the program: order is the order in which the     *)
(* loop over source_partition happens to visit its nodes.                  *)
(***************************************************************************)
RECURSIVE reach_neighbors(_, _, _)
reach_neighbors(row, j, st) ==
    IF j > Len(row) THEN st
    ELSE LET v == row[j][1] IN
         IF row[j][2] > 0 /\ v \notin st.reachable
         THEN reach_neighbors(row, j + 1,
                  [queue |-> Append(st.queue, v),
                   reachable |-> st.reachable \cup {v}])
         ELSE reach_neighbors(row, j + 1, st)

RECURSIVE reach_loop(_, _)
reach_loop(res, st) ==
    IF st.queue = <<>> THEN st.reachable
    ELSE LET u == Head(st.queue)
             popped == [st EXCEPT !.queue = Tail(st.queue)]
         IN  IF Has(res, u)
             THEN reach_loop(res, reach_neighbors(Lookup(res, u), 1, popped))
             ELSE reach_loop(res, popped)

\* mutant: only the nodes with an outgoing edge
AllNodes_tails(g) == KeySet(g)

\* all_nodes: every u in graph and every v in graph[u]
AllNodes(g) == KeySet(g) \cup UNION {KeySet(g[i][2]) : i \in 1..Len(g)}

\* mutant: every edge that leaves u is taken for a cut edge
cut_row_all(g, u, sink_partition) ==
    IF Has(g, u)
    THEN [j \in 1..Len(Lookup(g, u)) |-> <<u, Lookup(g, u)[j][1]>>]
    ELSE <<>>

\* the edges appended to cut_edges while the outer loop is at node u
cut_row(g, u, sink_partition) ==
    IF Has(g, u)
    THEN SelectSeq([j \in 1..Len(Lookup(g, u)) |-> <<u, Lookup(g, u)[j][1]>>],
                   LAMBDA e : e[2] \in sink_partition)
    ELSE <<>>

RECURSIVE cut_loop(_, _, _, _)
cut_loop(g, order, i, sink_partition) ==
    IF i > Len(order) THEN <<>>
    ELSE cut_row(g, order[i], sink_partition)
         \o cut_loop(g, order, i + 1, sink_partition)

RECURSIVE cut_sum(_, _, _)
cut_sum(g, cut_edges, i) ==
    IF i > Len(cut_edges) THEN 0
    ELSE Lookup2(g, cut_edges[i][1], cut_edges[i][2]) + cut_sum(g, cut_edges, i + 1)

\* the sets the loop over source_partition can be ordered in
Orders(S) == {o \in [1..Cardinality(S) -> S] : Range(o) = S}

\* mutant: the search from source is left out
MinimumCut_reachable_source(g, f, src) == {src}

MinimumCut_reachable(g, f, src) ==
    reach_loop(ResidualGraph_compute(g, f), [queue |-> <<src>>, reachable |-> {src}])

\* mutant: cut_value is the capacity of the first cut edge found
MinimumCut_find_first(g, f, src, order) ==
    LET reachable == MinimumCut_reachable(g, f, src)
        source_partition == reachable
        sink_partition == AllNodes(g) \ reachable
        cut_edges == cut_loop(g, order, 1, sink_partition)
    IN  <<cut_edges, source_partition, sink_partition,
          IF cut_edges = <<>> THEN 0
          ELSE Lookup2(g, cut_edges[1][1], cut_edges[1][2])>>

MinimumCut_find(g, f, src, order) ==
    LET reachable == MinimumCut_reachable(g, f, src)
        source_partition == reachable
        sink_partition == AllNodes(g) \ reachable
        cut_edges == cut_loop(g, order, 1, sink_partition)
    IN  <<cut_edges, source_partition, sink_partition, cut_sum(g, cut_edges, 1)>>

\* nodes of source_partition without a crossing edge add nothing to cut_edges
\* wherever the loop visits them, so only the others need ordering
CutTails(g, f, src) ==
    LET reachable == MinimumCut_reachable(g, f, src)
    IN  {u \in reachable : cut_row(g, u, AllNodes(g) \ reachable) # <<>>}

(***************************************************************************)
(* ExampleGraphs.get_all: the bundled networks.                            *)
(***************************************************************************)
SevenNodes == <<"s", "a", "b", "c", "d", "e", "t">>

ExampleSeeded ==
    [name |-> "Your Network - With Initial Flows (7 nodes)",
     nodes |-> SevenNodes,
     edges |-> << <<"s", "a", 6, 4>>, <<"s", "c", 10, 2>>, <<"s", "b", 12, 0>>,
                  <<"a", "d", 10, 4>>, <<"a", "c", 8, 0>>, <<"b", "c", 5, 0>>,
                  <<"b", "e", 6, 0>>, <<"c", "d", 6, 2>>, <<"c", "e", 6, 0>>,
                  <<"d", "e", 6, 0>>, <<"d", "t", 7, 6>>, <<"e", "t", 12, 0>> >>,
     source |-> "s", sink |-> "t", initial_flow |-> 6,
     expected_max_flow |-> 19]

ExampleZero ==
    [name |-> "Your Network - Zero Flows (7 nodes)",
     nodes |-> SevenNodes,
     edges |-> << <<"s", "a", 6, 0>>, <<"s", "c", 10, 0>>, <<"s", "b", 12, 0>>,
                  <<"a", "d", 10, 0>>, <<"a", "c", 8, 0>>, <<"b", "c", 5, 0>>,
                  <<"b", "e", 6, 0>>, <<"c", "d", 6, 0>>, <<"c", "e", 6, 0>>,
                  <<"d", "e", 6, 0>>, <<"d", "t", 7, 0>>, <<"e", "t", 12, 0>> >>,
     source |-> "s", sink |-> "t", initial_flow |-> 0,
     expected_max_flow |-> 19]

\* expected_max_flow is None for this network: dict.get gives None for it,
\* as for a key that is absent
ExampleTextbook ==
    [name |-> "Textbook Network (6 nodes)",
     nodes |-> <<"s", "a", "b", "c", "d", "t">>,
     edges |-> << <<"s", "a", 16, 0>>, <<"s", "b", 13, 0>>, <<"a", "b", 10, 0>>,
                  <<"a", "c", 12, 0>>, <<"b", "c", 4, 0>>, <<"b", "d", 14, 0>>,
                  <<"c", "d", 9, 0>>, <<"c", "t", 20, 0>>, <<"d", "t", 4, 0>> >>,
     source |-> "s", sink |-> "t", initial_flow |-> 0]

ExampleDiamond ==
    [name |-> "Diamond Network (4 nodes)",
     nodes |-> <<"s", "1", "2", "t">>,
     edges |-> << <<"s", "1", 2, 0>>, <<"s", "2", 4, 0>>, <<"1", "t", 1, 0>>,
                  <<"1", "2", 3, 0>>, <<"2", "t", 5, 0>> >>,
     source |-> "s", sink |-> "t", initial_flow |-> 0,
     expected_max_flow |-> 6]

ExampleGraphs_get_all == {ExampleSeeded, ExampleZero, ExampleTextbook, ExampleDiamond}

(***************************************************************************)
(* The generated networks: every sub-list of PoolEdges, in list order or   *)
(* reversed, each edge with the capacity 1 or MaxCap.                      *)
(***************************************************************************)
PoolNodes == <<"s", "a", "b", "c", "d", "t">>

PoolEdges == << <<"s", "a">>, <<"s", "d">>, <<"a", "b">>, <<"a", "c">>,
                <<"d", "b">>, <<"b", "t">>, <<"c", "t">> >>

\* caps[i] = 0 leaves PoolEdges[i] out
RECURSIVE PoolList(_, _)
PoolList(caps, i) ==
    IF i > Len(PoolEdges) THEN <<>>
    ELSE (IF caps[i] = 0 THEN <<>>
          ELSE << <<PoolEdges[i][1], PoolEdges[i][2], caps[i]>> >>)
         \o PoolList(caps, i + 1)

PoolDescs ==
    {[nodes |-> PoolNodes,
      edges |-> IF rev THEN Reverse(PoolList(caps, 1)) ELSE PoolList(caps, 1),
      source |-> "s", sink |-> "t"] :
        caps \in [1..Len(PoolEdges) -> {0, 1, MaxCap}], rev \in BOOLEAN}

RunDescs == ExampleGraphs_get_all \cup PoolDescs

(***************************************************************************)
(* Steps.  The explanation text is presentation and is left out; path is   *)
(* NoPath where the code stores None (a recorded path is never empty).     *)
(***************************************************************************)
NoPath == <<>>

Step(type, iter, f, res, p, b, mf) ==
    [type |-> type, iteration |-> iter, flow |-> f, residual |-> res,
     path |-> p, bottleneck |-> b, max_flow |-> mf]

CompleteStep(iter, f, res, mf, cut) ==
    [type |-> "complete", iteration |-> iter, flow |-> f, residual |-> res,
     path |-> NoPath, bottleneck |-> 0, max_flow |-> mf,
     min_cut_edges |-> cut[1], source_partition |-> cut[2],
     sink_partition |-> cut[3], cut_value |-> cut[4]]

\* self.flow[u][v] = 0 for every edge of graph
ZeroFlow(g) ==
    [i \in 1..Len(g) |->
        <<g[i][1], [j \in 1..Len(g[i][2]) |-> <<g[i][2][j][1], 0>>]>>]

\* float addition keeps inf
Plus(a, b) == IF a = Inf \/ b = Inf THEN Inf ELSE a + b

\* self.flow[u][v] on the defaultdict of defaultdict(int): 0 when absent
FlowAt(f, u, v) == IF Has2(f, u, v) THEN Lookup2(f, u, v) ELSE 0

\* mutant: the first edge of the path is left out
RECURSIVE augment_loop_tail(_, _, _, _)
augment_loop_tail(f, p, b, i) ==
    IF i > Len(p) - 1 THEN f
    ELSE augment_loop_tail(
             IF i = 1 THEN f
             ELSE Store2(f, p[i], p[i + 1], Plus(FlowAt(f, p[i], p[i + 1]), b)),
             p, b, i + 1)

\* mutant: the last edge of the path is left out
RECURSIVE augment_loop_short(_, _, _, _)
augment_loop_short(f, p, b, i) ==
    IF i > Len(p) - 2 THEN f
    ELSE augment_loop_short(Store2(f, p[i], p[i + 1], Plus(FlowAt(f, p[i], p[i + 1]), b)),
                            p, b, i + 1)

\* for i in range(len(path) - 1): self.flow[u][v] += bottleneck
RECURSIVE augment_loop(_, _, _, _)
augment_loop(f, p, b, i) ==
    IF i > Len(p) - 1 THEN f
    ELSE augment_loop(Store2(f, p[i], p[i + 1], Plus(FlowAt(f, p[i], p[i + 1]), b)),
                      p, b, i + 1)

(***************************************************************************)
(* The pipeline.                                                           *)
(***************************************************************************)
NoCall == [fn |-> "none"]

NoDesc == [source |-> None, sink |-> None]

\* st.session_state after the first rendering of the page; ff_edit_loaded
\* stands for 'ff_edit_edges' in st.session_state
initialize_session_state ==
    [ff_graph |-> None, ff_initial_flow |-> None, ff_source |-> None,
     ff_sink |-> None, ff_steps_history |-> <<>>, ff_current_step |-> 0,
     ff_max_flow_value |-> 0, ff_graph_built |-> FALSE,
     ff_edit_loaded |-> FALSE, ff_edit_nodes |-> <<>>, ff_edit_edges |-> <<>>,
     ff_edit_source |-> None, ff_edit_sink |-> None,
     scratch_nodes |-> <<"s", "t">>, scratch_edges |-> <<>>,
     scratch_edge_history |-> <<>>]

\* nothing built, constructed or run yet
Fresh ==
    /\ session = initialize_session_state
    /\ accepted = NoDesc
    /\ clicks = 0
    /\ is_valid = FALSE
    /\ message = <<>>
    /\ graph = EmptyDict
    /\ initial_flow = EmptyDict
    /\ original_graph = EmptyDict
    /\ source = None
    /\ sink = None
    /\ flow = EmptyDict
    /\ steps = <<>>
    /\ max_flow = 0
    /\ iteration = 0
    /\ residual = EmptyDict
    /\ path = NoPath
    /\ bottleneck = 0
    /\ returned = None
    /\ result = None

Init ==
    /\ graph_data \in RunDescs
    /\ pc = "created"
    /\ call = NoCall
    /\ Fresh

\* GraphValidator.validate(graph_data)
Validate ==
    /\ pc = "created"
    /\ UNCHANGED otherVars
    /\ LET r == GraphValidator_validate(graph_data)
       IN  /\ is_valid' = r[1]
           /\ message' = r[2]
           /\ pc' = IF r[1] THEN "validated" ELSE "rejected"
    /\ UNCHANGED <<graph_data, graph, initial_flow, original_graph, source, sink,
                   flow, steps, max_flow, iteration, residual, path, bottleneck,
                   returned>>

\* GraphBuilder.from_edges(graph_data['edges'])
Build ==
    /\ pc = "validated"
    /\ UNCHANGED otherVars
    /\ LET r == GraphBuilder_from_edges(graph_data["edges"])
       IN  /\ graph' = r[1]
           /\ initial_flow' = r[2]
    /\ pc' = "built"
    /\ UNCHANGED <<graph_data, is_valid, message, original_graph, source, sink,
                   flow, steps, max_flow, iteration, residual, path, bottleneck,
                   returned>>

\* mutant: the flow starts from the seeded flows of the edge list
Construct_seeded ==
    /\ pc = "built"
    /\ UNCHANGED otherVars
    /\ original_graph' = graph
    /\ source' = graph_data["source"]
    /\ sink' = graph_data["sink"]
    /\ flow' = initial_flow
    /\ steps' = <<>>
    /\ pc' = "constructed"
    /\ UNCHANGED <<graph_data, is_valid, message, graph, initial_flow, max_flow,
                   iteration, residual, path, bottleneck, returned>>

\* FordFulkersonAlgorithm(graph, source, sink)
Construct ==
    /\ pc = "built"
    /\ UNCHANGED otherVars
    /\ original_graph' = graph
    /\ source' = graph_data["source"]
    /\ sink' = graph_data["sink"]
    /\ flow' = ZeroFlow(graph)
    /\ steps' = <<>>
    /\ pc' = "constructed"
    /\ UNCHANGED <<graph_data, is_valid, message, graph, initial_flow, max_flow,
                   iteration, residual, path, bottleneck, returned>>

\* mutant: run() takes up the flows the edge list gave
RunStart_seeded ==
    /\ pc = "constructed"
    /\ UNCHANGED otherVars
    /\ LET res == ResidualGraph_compute(original_graph, initial_flow)
       IN  /\ residual' = res
           /\ steps' = Append(steps, Step("initial", 0, initial_flow, res, NoPath, 0, 0))
    /\ flow' = initial_flow
    /\ max_flow' = 0
    /\ iteration' = 0
    /\ pc' = "searching"
    /\ UNCHANGED <<graph_data, is_valid, message, graph, initial_flow,
                   original_graph, source, sink, path, bottleneck, returned>>

\* run(), up to the main loop: the initial Step
RunStart ==
    /\ pc = "constructed"
    /\ UNCHANGED otherVars
    /\ LET res == ResidualGraph_compute(original_graph, flow)
       IN  /\ residual' = res
           /\ steps' = Append(steps, Step("initial", 0, flow, res, NoPath, 0, 0))
    /\ max_flow' = 0
    /\ iteration' = 0
    /\ pc' = "searching"
    /\ UNCHANGED <<graph_data, is_valid, message, graph, initial_flow,
                   original_graph, source, sink, flow, path, bottleneck, returned>>

\* one pass of the main loop up to the path_found Step, or to the return
Search ==
    /\ pc = "searching"
    /\ UNCHANGED otherVars
    /\ iteration' = iteration + 1
    /\ LET res == ResidualGraph_compute(original_graph, flow)
           found == PathFinder_bfs_find_path(res, source, sink)
           p == PathFinder_reconstruct_path(found[2], source, sink)
           b == PathFinder_compute_bottleneck(p, res)
       IN  /\ residual' = res
           /\ IF ~found[1]
              THEN /\ \E order \in Orders(CutTails(original_graph, flow, source)) :
                          steps' = Append(steps,
                              CompleteStep(iteration + 1, flow, res, max_flow,
                                  MinimumCut_find(original_graph, flow, source, order)))
                   /\ returned' = max_flow
                   /\ pc' = "done"
                   /\ UNCHANGED <<path, bottleneck>>
              ELSE /\ path' = p
                   /\ bottleneck' = b
                   /\ steps' = Append(steps,
                          Step("path_found", iteration + 1, flow, res, p, b, max_flow))
                   /\ pc' = "augmenting"
                   /\ UNCHANGED returned
    /\ UNCHANGED <<graph_data, is_valid, message, graph, initial_flow,
                   original_graph, source, sink, flow, max_flow>>

\* mutant: the flow_updated Step records the max_flow of before the update
Augment_stale ==
    /\ pc = "augmenting"
    /\ UNCHANGED otherVars
    /\ LET f == augment_loop(flow, path, bottleneck, 1)
           mf == Plus(max_flow, bottleneck)
       IN  /\ flow' = f
           /\ max_flow' = mf
           /\ residual' = ResidualGraph_compute(original_graph, f)
           /\ steps' = Append(steps,
                  Step("flow_updated", iteration, f,
                       ResidualGraph_compute(original_graph, f), path, bottleneck,
                       max_flow))
    /\ pc' = "searching"
    /\ UNCHANGED <<graph_data, is_valid, message, graph, initial_flow,
                   original_graph, source, sink, iteration, path, bottleneck,
                   returned>>

\* mutant: max_flow is not accumulated
Augment_noacc ==
    /\ pc = "augmenting"
    /\ UNCHANGED otherVars
    /\ LET f == augment_loop(flow, path, bottleneck, 1)
           mf == max_flow
       IN  /\ flow' = f
           /\ max_flow' = mf
           /\ residual' = ResidualGraph_compute(original_graph, f)
           /\ steps' = Append(steps,
                  Step("flow_updated", iteration, f,
                       ResidualGraph_compute(original_graph, f), path, bottleneck,
                       mf))
    /\ pc' = "searching"
    /\ UNCHANGED <<graph_data, is_valid, message, graph, initial_flow,
                   original_graph, source, sink, iteration, path, bottleneck,
                   returned>>

\* mutant: the flow_updated Step carries the iteration index of the next pass
Augment_nextiter ==
    /\ pc = "augmenting"
    /\ UNCHANGED otherVars
    /\ LET f == augment_loop(flow, path, bottleneck, 1)
           mf == Plus(max_flow, bottleneck)
       IN  /\ flow' = f
           /\ max_flow' = mf
           /\ residual' = ResidualGraph_compute(original_graph, f)
           /\ steps' = Append(steps,
                  Step("flow_updated", iteration + 1, f,
                       ResidualGraph_compute(original_graph, f), path, bottleneck,
                       mf))
    /\ pc' = "searching"
    /\ UNCHANGED <<graph_data, is_valid, message, graph, initial_flow,
                   original_graph, source, sink, iteration, path, bottleneck,
                   returned>>

\* mutant: the Steps hold the flow map itself instead of a copy of it
Augment_alias ==
    /\ pc = "augmenting"
    /\ UNCHANGED otherVars
    /\ LET f == augment_loop(flow, path, bottleneck, 1)
           mf == Plus(max_flow, bottleneck)
       IN  /\ flow' = f
           /\ max_flow' = mf
           /\ residual' = ResidualGraph_compute(original_graph, f)
           /\ steps' = Append([i \in 1..Len(steps) |-> [steps[i] EXCEPT !.flow = f]],
                  Step("flow_updated", iteration, f,
                       ResidualGraph_compute(original_graph, f), path, bottleneck,
                       mf))
    /\ pc' = "searching"
    /\ UNCHANGED <<graph_data, is_valid, message, graph, initial_flow,
                   original_graph, source, sink, iteration, path, bottleneck,
                   returned>>

\* mutant: the capacities along the path are lowered by the bottleneck, as
\* in an implementation that keeps the residual in the capacity map itself
Augment_capacity ==
    /\ pc = "augmenting"
    /\ UNCHANGED otherVars
    /\ LET f == augment_loop(flow, path, bottleneck, 1)
           mf == Plus(max_flow, bottleneck)
       IN  /\ flow' = f
           /\ max_flow' = mf
           /\ residual' = ResidualGraph_compute(original_graph, f)
           /\ steps' = Append(steps,
                  Step("flow_updated", iteration, f,
                       ResidualGraph_compute(original_graph, f), path, bottleneck,
                       mf))
    /\ original_graph' = augment_loop(original_graph, path, 0 - bottleneck, 1)
    /\ pc' = "searching"
    /\ UNCHANGED <<graph_data, is_valid, message, graph, initial_flow,
                   source, sink, iteration, path, bottleneck, returned>>

\* the rest of the pass: augment along the path, the flow_updated Step
Augment ==
    /\ pc = "augmenting"
    /\ UNCHANGED otherVars
    /\ LET f == augment_loop(flow, path, bottleneck, 1)
           mf == Plus(max_flow, bottleneck)
       IN  /\ flow' = f
           /\ max_flow' = mf
           /\ residual' = ResidualGraph_compute(original_graph, f)
           /\ steps' = Append(steps,
                  Step("flow_updated", iteration, f,
                       ResidualGraph_compute(original_graph, f), path, bottleneck,
                       mf))
    /\ pc' = "searching"
    /\ UNCHANGED <<graph_data, is_valid, message, graph, initial_flow,
                   original_graph, source, sink, iteration, path, bottleneck,
                   returned>>

Next == Validate \/ Build \/ Construct \/ RunStart \/ Search \/ Augment

Spec == Init /\ [][Next]_vars

(***************************************************************************)
(* run() called again on an object whose run() has returned: the           *)
(* constructor is not repeated, so self.flow and self.steps are what the   *)
(* earlier invocation left.  MaxRuns bounds the invocations on one object. *)
(***************************************************************************)
MaxRuns == 2

\* the invocations of run() so far: each appends one initial Step
Invocations == Cardinality({i \in 1..Len(steps) : steps[i].type = "initial"})

\* run() once more, up to the main loop
Rerun ==
    /\ pc = "done"
    /\ Invocations < MaxRuns
    /\ UNCHANGED otherVars
    /\ LET res == ResidualGraph_compute(original_graph, flow)
       IN  /\ residual' = res
           /\ steps' = Append(steps, Step("initial", 0, flow, res, NoPath, 0, 0))
    /\ max_flow' = 0
    /\ iteration' = 0
    /\ path' = NoPath
    /\ bottleneck' = 0
    /\ returned' = None
    /\ pc' = "searching"
    /\ UNCHANGED <<graph_data, is_valid, message, graph, initial_flow,
                   original_graph, source, sink, flow>>

SpecRerun == Init /\ [][Next \/ Rerun]_vars

(***************************************************************************)
(* ResidualGraph.compute called on its own, on capacity and flow maps over *)
(* ComputePairs: any of the pairs may be absent from either map, and the   *)
(* flow may lie outside the capacity.                                      *)
(***************************************************************************)
ComputePairs == << <<"s", "a">>, <<"a", "s">>, <<"a", "t">> >>

\* the dict of dicts with vals[i] at ComputePairs[i], left out where absent
RECURSIVE PairDict(_, _, _)
PairDict(vals, absent, i) ==
    IF i = 0 THEN EmptyDict
    ELSE IF vals[i] = absent THEN PairDict(vals, absent, i - 1)
    ELSE Store2(PairDict(vals, absent, i - 1),
                ComputePairs[i][1], ComputePairs[i][2], vals[i])

ComputeArgs ==
    {<<PairDict(caps, 0, Len(ComputePairs)), PairDict(fl, -1, Len(ComputePairs))>> :
        caps \in [1..Len(ComputePairs) -> 0..MaxCap],
        fl \in [1..Len(ComputePairs) -> -1..MaxCap]}

InitCompute ==
    /\ graph_data = NoDesc
    /\ pc = "call"
    /\ call \in {[fn |-> "compute", args |-> a] : a \in ComputeArgs}
    /\ Fresh

CallCompute ==
    /\ pc = "call"
    /\ call.fn = "compute"
    /\ result' = ResidualGraph_compute(call.args[1], call.args[2])
    /\ pc' = "returned"
    /\ UNCHANGED <<graph_data, is_valid, message, graph, initial_flow,
                   original_graph, source, sink, flow, steps, max_flow, iteration,
                   residual, path, bottleneck, returned, call>>
    /\ UNCHANGED uiVars

SpecResidual == (Init \/ InitCompute) /\ [][Next \/ CallCompute]_vars

(***************************************************************************)
(* MinimumCut.find, PathFinder.bfs_find_path with reconstruct_path, and    *)
(* PathFinder.compute_bottleneck called on their own.  The maps are the    *)
(* defaultdicts the program builds: a row exists only with an entry in it. *)
(* The search is followed one dequeued node at a time, result holding its  *)
(* locals.                                                                 *)
(***************************************************************************)
\* the dict of dicts with vals[i] at pairs[i], left out where absent
RECURSIVE PairsDict(_, _, _, _)
PairsDict(pairs, vals, absent, i) ==
    IF i = 0 THEN EmptyDict
    ELSE IF vals[i] = absent THEN PairsDict(pairs, vals, absent, i - 1)
    ELSE Store2(PairsDict(pairs, vals, absent, i - 1),
                pairs[i][1], pairs[i][2], vals[i])

FindPairs == << <<"s", "a">>, <<"s", "b">>, <<"a", "b">>, <<"a", "t">>, <<"b", "t">> >>

FindArgs ==
    {<<PairsDict(FindPairs, caps, 0, Len(FindPairs)),
       PairsDict(FindPairs, fl, -1, Len(FindPairs)), "s">> :
        caps \in [1..Len(FindPairs) -> {0, 1, MaxCap}],
        fl \in [1..Len(FindPairs) -> {0, 1}]}

InitFind ==
    /\ graph_data = NoDesc
    /\ pc = "call"
    /\ call \in {[fn |-> "find", args |-> a] : a \in FindArgs}
    /\ Fresh

CallFrame == UNCHANGED <<graph_data, is_valid, message, graph, initial_flow,
                         original_graph, source, sink, flow, steps, max_flow,
                         iteration, residual, path, bottleneck, returned, call,
                         session, accepted, clicks>>

\* MinimumCut.find(graph, flow, source)
CallFind ==
    /\ pc = "call"
    /\ call.fn = "find"
    /\ \E order \in Orders(CutTails(call.args[1], call.args[2], call.args[3])) :
           result' = MinimumCut_find(call.args[1], call.args[2], call.args[3], order)
    /\ pc' = "returned"
    /\ CallFrame

BfsPairs == << <<"s", "a">>, <<"a", "b">>, <<"b", "a">>, <<"b", "t">>,
               <<"a", "t">>, <<"s", "b">> >>

BfsArgs ==
    {<<PairsDict(BfsPairs, vals, -1, Len(BfsPairs)), ends[1], ends[2]>> :
        vals \in [1..Len(BfsPairs) -> {-1, 0, 1}],
        ends \in {<<"s", "t">>, <<"a", "t">>, <<"s", "s">>}}

InitBfs ==
    /\ graph_data = NoDesc
    /\ pc = "call"
    /\ call \in {[fn |-> "bfs", args |-> a] : a \in BfsArgs}
    /\ Fresh

\* bfs_find_path(residual_graph, source, sink) up to the while loop
BfsStart ==
    /\ pc = "call"
    /\ call.fn = "bfs"
    /\ result' = [queue |-> <<call.args[2]>>, visited |-> {call.args[2]},
                  parent |-> (call.args[2] :> None), dequeued |-> <<>>,
                  path_exists |-> FALSE, path |-> NoPath]
    /\ pc' = "bfs"
    /\ CallFrame

\* one pass of the while loop, or the return when the queue is empty
BfsStep ==
    /\ pc = "bfs"
    /\ IF result.queue = <<>>
       THEN /\ result' = [result EXCEPT !.path_exists = FALSE]
            /\ pc' = "bfs_returned"
       ELSE LET u == Head(result.queue)
                popped == [queue |-> Tail(result.queue), visited |-> result.visited,
                           parent |-> result.parent]
                st == IF Has(call.args[1], u)
                      THEN bfs_neighbors(Lookup(call.args[1], u), 1, u, popped)
                      ELSE popped
            IN  IF u = call.args[3]
                THEN /\ result' = [result EXCEPT !.queue = Tail(@),
                                                 !.dequeued = Append(@, u),
                                                 !.path_exists = TRUE]
                     /\ pc' = "bfs_returned"
                ELSE /\ result' = [result EXCEPT !.queue = st.queue,
                                                 !.visited = st.visited,
                                                 !.parent = st.parent,
                                                 !.dequeued = Append(@, u)]
                     /\ pc' = "bfs"
    /\ CallFrame

\* reconstruct_path(parent, source, sink) on what the search returned
CallReconstruct ==
    /\ pc = "bfs_returned"
    /\ result.path_exists
    /\ result' = [result EXCEPT !.path =
           PathFinder_reconstruct_path(result.parent, call.args[2], call.args[3])]
    /\ pc' = "returned"
    /\ CallFrame

BottleneckNodes == {"s", "a", "t"}

MaxPathLen == 3

BottleneckArgs ==
    {<<p, PairDict(vals, 0, Len(ComputePairs))>> :
        p \in UNION {[1..n -> BottleneckNodes] : n \in 0..MaxPathLen},
        vals \in [1..Len(ComputePairs) -> {0, 1, MaxCap}]}

InitBottleneck ==
    /\ graph_data = NoDesc
    /\ pc = "call"
    /\ call \in {[fn |-> "bottleneck", args |-> a] : a \in BottleneckArgs}
    /\ Fresh

\* residual_graph after the reads residual_graph[u][v] of the loop: reading
\* a missing key of a defaultdict inserts it with the default
RECURSIVE bottleneck_reads(_, _, _)
bottleneck_reads(p, residual_graph, i) ==
    IF i > Len(p) - 1 THEN residual_graph
    ELSE bottleneck_reads(p,
             IF Has2(residual_graph, p[i], p[i + 1]) THEN residual_graph
             ELSE Store2(residual_graph, p[i], p[i + 1], 0),
             i + 1)

\* compute_bottleneck(path, residual_graph): no statement of it raises, it
\* returns a value, and residual_graph is what the reads left
CallBottleneck ==
    /\ pc = "call"
    /\ call.fn = "bottleneck"
    /\ result' = [outcome |-> "value",
                  value |-> PathFinder_compute_bottleneck(call.args[1], call.args[2]),
                  residual_graph |-> bottleneck_reads(call.args[1], call.args[2], 1)]
    /\ pc' = "returned"
    /\ CallFrame

NextCalls == CallFind \/ BfsStart \/ BfsStep \/ CallReconstruct \/ CallBottleneck

SpecCalls == (InitFind \/ InitBfs \/ InitBottleneck) /\ [][NextCalls]_vars

(***************************************************************************)
(* Descriptions for the validator alone: any of the keys may be missing,   *)
(* source and sink may be empty, equal or unknown, and an edge may have a  *)
(* wrong arity, an unknown endpoint, a capacity of 0 or a seeded flow that *)
(* is negative or above the capacity.                                      *)
(***************************************************************************)
\* the mapping with the keys of ks and their values in vals
Pick(ks, vals) == [k \in ks |-> vals[k]]

ValEdges ==
    {<<"s", "t">>, <<"s", "t", 1, 0, 0>>}
    \cup {<<u, v, c>> : u \in {"s", "x"}, v \in {"t", "x"}, c \in {0, 1}}
    \cup {<<u, v, c, f>> : u \in {"s", "x"}, v \in {"t", "x"}, c \in {0, 1},
                            f \in {-1, 1, 2}}

ValEdgeLists == UNION {[1..n -> ValEdges] : n \in 0..MaxValEdges}

\* what the header checks see, over a few edge lists
HeaderDescs ==
    {Pick(ks, [source |-> src, sink |-> snk, nodes |-> nodes, edges |-> edges]) :
        ks \in SUBSET {"source", "sink", "nodes", "edges"},
        src \in {"", "s", "t"}, snk \in {"", "s", "t"},
        nodes \in {<<"s", "t">>, <<"s">>, <<"t">>},
        edges \in {<<>>, << <<"s", "t", 1>> >>, << <<"s", "t", 0>> >>}}

\* what the edge checks see, under a header that passes
EdgeDescs ==
    {[source |-> "s", sink |-> "t", nodes |-> <<"s", "t">>, edges |-> edges] :
        edges \in ValEdgeLists}

ValDescs == HeaderDescs \cup EdgeDescs

InitValidate ==
    /\ graph_data \in ValDescs
    /\ pc = "created"
    /\ call = NoCall
    /\ Fresh

SpecValidate == InitValidate /\ [][Next]_vars

(***************************************************************************)
(* The user interface (algorithms/ford_fulkerson/ui.py): three ways to     *)
(* create a graph, and the run button.  One action per button; the run     *)
(* button's handler goes through RunStart, Search and Augment.  The        *)
(* button clicks of a session are bounded by MaxClicks and the values the  *)
(* number inputs take by NewCaps.                                          *)
(***************************************************************************)
MaxClicks == 3

NewCaps == {1, MaxCap}

\* the add-node button is disabled at this many nodes
NodeLimit == 10

RunVarsIdle == <<original_graph, source, sink, flow, steps, max_flow, iteration,
                 residual, path, bottleneck, returned>>

\* the session with a built graph installed
Installed(ss, g, f, src, snk) ==
    [ss EXCEPT !.ff_graph = g, !.ff_initial_flow = f, !.ff_source = src,
               !.ff_sink = snk, !.ff_graph_built = TRUE,
               !.ff_steps_history = <<>>]

\* "Load This Graph" of the load-example tab
LoadExample ==
    /\ pc = "ui"
    /\ clicks < MaxClicks
    /\ clicks' = clicks + 1
    /\ \E example_data \in ExampleGraphs_get_all :
        LET r == GraphValidator_validate(example_data)
            b == GraphBuilder_from_edges(example_data["edges"])
        IN  /\ graph_data' = example_data
            /\ is_valid' = r[1]
            /\ message' = r[2]
            /\ IF ~r[1]
               THEN UNCHANGED <<graph, initial_flow, session, accepted>>
               ELSE /\ graph' = b[1]
                    /\ initial_flow' = b[2]
                    /\ accepted' = example_data
                    /\ session' = Installed(session, b[1], b[2],
                                      example_data["source"], example_data["sink"])
    /\ UNCHANGED <<pc, call, result>>
    /\ UNCHANGED RunVarsIdle

\* the edge as the editor keeps it: [u, v, capacity, flow]
edit_edge(edge) ==
    IF Len(edge) = 3 THEN <<edge[1], edge[2], edge[3], 0>>
    ELSE <<edge[1], edge[2], edge[3], edge[4]>>

UIFrame == UNCHANGED <<graph_data, pc, is_valid, message, graph, initial_flow,
                       accepted, call, result>>

\* "Load" of the visual editor
EditorLoad ==
    /\ pc = "ui"
    /\ clicks < MaxClicks
    /\ clicks' = clicks + 1
    /\ \E example_data \in ExampleGraphs_get_all :
        session' = [session EXCEPT
            !.ff_edit_loaded = TRUE,
            !.ff_edit_nodes = example_data["nodes"],
            !.ff_edit_edges = [i \in 1..Len(example_data["edges"]) |->
                                  edit_edge(example_data["edges"][i])],
            !.ff_edit_source = example_data["source"],
            !.ff_edit_sink = example_data["sink"]]
    /\ UIFrame
    /\ UNCHANGED RunVarsIdle

\* the capacity input of an edge of the visual editor
EditorSetCapacity ==
    /\ pc = "ui"
    /\ session.ff_edit_loaded
    /\ clicks < MaxClicks
    /\ clicks' = clicks + 1
    /\ \E idx \in 1..Len(session.ff_edit_edges), new_cap \in NewCaps :
        /\ new_cap # session.ff_edit_edges[idx][3]
        /\ session' = [session EXCEPT !.ff_edit_edges[idx][3] = new_cap]
    /\ UIFrame
    /\ UNCHANGED RunVarsIdle

\* list.pop(idx)
Pop(s, idx) == [i \in 1..(Len(s) - 1) |-> IF i < idx THEN s[i] ELSE s[i + 1]]

\* the delete button of an edge of the visual editor
EditorDeleteEdge ==
    /\ pc = "ui"
    /\ session.ff_edit_loaded
    /\ clicks < MaxClicks
    /\ clicks' = clicks + 1
    /\ \E idx \in 1..Len(session.ff_edit_edges) :
        session' = [session EXCEPT !.ff_edit_edges = Pop(@, idx)]
    /\ UIFrame
    /\ UNCHANGED RunVarsIdle

\* any(e[0] == u and e[1] == v for e in edges)
edge_exists(edges, u, v) ==
    \E i \in 1..Len(edges) : edges[i][1] = u /\ edges[i][2] = v

\* "Add Edge" of the visual editor
EditorAddEdge ==
    /\ pc = "ui"
    /\ session.ff_edit_loaded
    /\ clicks < MaxClicks
    /\ clicks' = clicks + 1
    /\ \E new_from \in Range(session.ff_edit_nodes),
          new_to \in Range(session.ff_edit_nodes), new_cap \in NewCaps :
        /\ new_from # new_to
        /\ ~edge_exists(session.ff_edit_edges, new_from, new_to)
        /\ session' = [session EXCEPT
               !.ff_edit_edges = Append(@, <<new_from, new_to, new_cap, 0>>)]
    /\ UIFrame
    /\ UNCHANGED RunVarsIdle

\* "Apply & Use Graph" of the visual editor
EditorApply ==
    /\ pc = "ui"
    /\ session.ff_edit_loaded
    /\ clicks < MaxClicks
    /\ clicks' = clicks + 1
    /\ LET gd == [nodes |-> session.ff_edit_nodes,
                  edges |-> session.ff_edit_edges,
                  source |-> session.ff_edit_source,
                  sink |-> session.ff_edit_sink]
           r == GraphValidator_validate(gd)
           b == GraphBuilder_from_edges(gd["edges"])
       IN  /\ graph_data' = gd
           /\ is_valid' = r[1]
           /\ message' = r[2]
           /\ IF r[1]
              THEN /\ graph' = b[1]
                   /\ initial_flow' = b[2]
                   /\ accepted' = gd
                   /\ session' = Installed(session, b[1], b[2],
                                     session.ff_edit_source, session.ff_edit_sink)
              ELSE UNCHANGED <<graph, initial_flow, session, accepted>>
    /\ UNCHANGED <<pc, call, result>>
    /\ UNCHANGED RunVarsIdle

Letters == <<"a", "b", "c", "d", "e", "f", "g", "h">>

\* the add-node button of the build-from-scratch tab
ScratchAddNode ==
    /\ pc = "ui"
    /\ Len(session.scratch_nodes) < NodeLimit
    /\ clicks < MaxClicks
    /\ clicks' = clicks + 1
    /\ LET free == {i \in 1..Len(Letters) :
                       Letters[i] \notin Range(session.scratch_nodes)}
           first == CHOOSE i \in free : \A j \in free : i <= j
       IN  session' = [session EXCEPT !.scratch_nodes = Append(@, Letters[first])]
    /\ UIFrame
    /\ UNCHANGED RunVarsIdle

\* [(u, v, c) for u, v, c in edges if u != node and v != node]
without_node(edges, node) ==
    SelectSeq(edges, LAMBDA e : e[1] # node /\ e[2] # node)

\* the delete-node button of the build-from-scratch tab
ScratchDeleteNode ==
    /\ pc = "ui"
    /\ Len(session.scratch_nodes) > 2
    /\ clicks < MaxClicks
    /\ clicks' = clicks + 1
    /\ LET others == {i \in 1..Len(session.scratch_nodes) :
                         session.scratch_nodes[i] \notin {"s", "t"}}
           last == CHOOSE i \in others : \A j \in others : j <= i
           node == session.scratch_nodes[last]
       IN  session' = [session EXCEPT
               !.scratch_nodes = Pop(@, last),
               !.scratch_edges = without_node(@, node),
               !.scratch_edge_history = without_node(@, node)]
    /\ UIFrame
    /\ UNCHANGED RunVarsIdle

\* update_edge(u, v, cap)
update_edge(edges, u, v, cap) ==
    [i \in 1..Len(edges) |->
        IF edges[i][1] = u /\ edges[i][2] = v THEN <<u, v, cap>> ELSE edges[i]]

\* "Add Edge" of the build-from-scratch tab
ScratchAddEdge ==
    /\ pc = "ui"
    /\ clicks < MaxClicks
    /\ clicks' = clicks + 1
    /\ \E u \in Range(session.scratch_nodes), v \in Range(session.scratch_nodes),
          cap \in NewCaps :
        /\ u # v
        /\ v # "s"
        /\ u # "t"
        /\ session' =
              IF edge_exists(session.scratch_edges, u, v)
              THEN [session EXCEPT !.scratch_edges = update_edge(@, u, v, cap)]
              ELSE [session EXCEPT
                       !.scratch_edges = Append(@, <<u, v, cap>>),
                       !.scratch_edge_history = Append(@, <<u, v, cap>>)]
    /\ UIFrame
    /\ UNCHANGED RunVarsIdle

\* list.remove(x): the first occurrence
Remove(s, x) ==
    Pop(s, CHOOSE i \in 1..Len(s) : s[i] = x /\ \A j \in 1..(i - 1) : s[j] # x)

\* the undo button of the build-from-scratch tab
ScratchUndo ==
    /\ pc = "ui"
    /\ Len(session.scratch_edge_history) # 0
    /\ clicks < MaxClicks
    /\ clicks' = clicks + 1
    /\ LET last == session.scratch_edge_history[Len(session.scratch_edge_history)]
       IN  session' = [session EXCEPT
               !.scratch_edge_history = SubSeq(@, 1, Len(@) - 1),
               !.scratch_edges = IF last \in Range(@) THEN Remove(@, last) ELSE @]
    /\ UIFrame
    /\ UNCHANGED RunVarsIdle

\* the reset button of the build-from-scratch tab
ScratchReset ==
    /\ pc = "ui"
    /\ clicks < MaxClicks
    /\ clicks' = clicks + 1
    /\ session' = [session EXCEPT !.scratch_nodes = <<"s", "t">>,
                                  !.scratch_edges = <<>>,
                                  !.scratch_edge_history = <<>>]
    /\ UIFrame
    /\ UNCHANGED RunVarsIdle

\* for u, v, cap in scratch_edges: graph[u][v] = cap
RECURSIVE scratch_graph(_, _, _)
scratch_graph(edges, i, g) ==
    IF i > Len(edges) THEN g
    ELSE scratch_graph(edges, i + 1, Store2(g, edges[i][1], edges[i][2], edges[i][3]))

\* "BUILD" of the build-from-scratch tab
ScratchBuild ==
    /\ pc = "ui"
    /\ Len(session.scratch_edges) > 0
    /\ clicks < MaxClicks
    /\ clicks' = clicks + 1
    /\ session' = [session EXCEPT
           !.ff_graph = scratch_graph(session.scratch_edges, 1, EmptyDict),
           !.ff_source = "s",
           !.ff_sink = "t",
           !.ff_graph_built = TRUE,
           !.ff_steps_history = <<>>]
    /\ UIFrame
    /\ UNCHANGED RunVarsIdle

\* "Load Different Graph" of the run tab
LoadDifferent ==
    /\ pc = "ui"
    /\ session.ff_graph_built
    /\ clicks < MaxClicks
    /\ clicks' = clicks + 1
    /\ session' = [session EXCEPT !.ff_graph_built = FALSE,
                                  !.ff_steps_history = <<>>]
    /\ UIFrame
    /\ UNCHANGED RunVarsIdle

\* "Run Ford-Fulkerson Algorithm": FordFulkersonAlgorithm(ff_graph, ff_source,
\* ff_sink), then run() through RunStart, Search and Augment
RunClick ==
    /\ pc = "ui"
    /\ session.ff_graph_built
    /\ session.ff_steps_history = <<>>
    /\ clicks < MaxClicks
    /\ clicks' = clicks + 1
    /\ original_graph' = session.ff_graph
    /\ source' = session.ff_source
    /\ sink' = session.ff_sink
    /\ flow' = ZeroFlow(session.ff_graph)
    /\ steps' = <<>>
    /\ max_flow' = 0
    /\ iteration' = 0
    /\ residual' = EmptyDict
    /\ path' = NoPath
    /\ bottleneck' = 0
    /\ returned' = None
    /\ pc' = "constructed"
    /\ UNCHANGED <<graph_data, is_valid, message, graph, initial_flow, session,
                   accepted, call, result>>

\* the rest of the run button's handler, once run() has returned
StoreResults ==
    /\ pc = "done"
    /\ session.ff_graph_built
    /\ session' = [session EXCEPT !.ff_steps_history = steps,
                                  !.ff_max_flow_value = returned,
                                  !.ff_current_step = 0]
    /\ pc' = "ui"
    /\ UNCHANGED <<graph_data, is_valid, message, graph, initial_flow, accepted,
                   clicks, call, result>>
    /\ UNCHANGED RunVarsIdle

\* "Run Again" of the run tab
RunAgain ==
    /\ pc = "ui"
    /\ session.ff_graph_built
    /\ session.ff_steps_history # <<>>
    /\ clicks < MaxClicks
    /\ clicks' = clicks + 1
    /\ session' = [session EXCEPT !.ff_steps_history = <<>>]
    /\ UIFrame
    /\ UNCHANGED RunVarsIdle

InitUI ==
    /\ graph_data = NoDesc
    /\ pc = "ui"
    /\ call = NoCall
    /\ Fresh

NextUI ==
    \/ LoadExample
    \/ EditorLoad \/ EditorSetCapacity \/ EditorDeleteEdge \/ EditorAddEdge
    \/ EditorApply
    \/ ScratchAddNode \/ ScratchDeleteNode \/ ScratchAddEdge \/ ScratchUndo
    \/ ScratchReset \/ ScratchBuild
    \/ LoadDifferent \/ RunClick \/ RunStart \/ Search \/ Augment
    \/ StoreResults \/ RunAgain

SpecUI == InitUI /\ [][NextUI]_vars

(***************************************************************************)
(* GraphBuilder.from_edges called on its own on edge lists in which a pair *)
(* may occur several times, as triples and as quadruples, and              *)
(* GraphValidator.validate called again on a description it has already    *)
(* judged.                                                                 *)
(***************************************************************************)
MaxEdgeList == 3

BuilderEdges ==
    {<<e[1], e[2], c>> : e \in {<<"s", "a">>, <<"a", "t">>}, c \in {1, MaxCap}}
    \cup {<<e[1], e[2], c, 1>> : e \in {<<"s", "a">>, <<"a", "t">>}, c \in {1, MaxCap}}

BuilderArgs == UNION {[1..n -> BuilderEdges] : n \in 0..MaxEdgeList}

InitFromEdges ==
    /\ graph_data = NoDesc
    /\ pc = "call"
    /\ call \in {[fn |-> "from_edges", args |-> <<a>>] : a \in BuilderArgs}
    /\ Fresh

\* GraphBuilder.from_edges(edges_list)
CallFromEdges ==
    /\ pc = "call"
    /\ call.fn = "from_edges"
    /\ result' = GraphBuilder_from_edges(call.args[1])
    /\ pc' = "returned"
    /\ CallFrame

\* mutant: the validator takes the edges off the description as it checks them
Revalidate_consume ==
    /\ pc \in {"validated", "rejected"}
    /\ UNCHANGED otherVars
    /\ LET r == GraphValidator_validate(graph_data)
       IN  /\ is_valid' = r[1]
           /\ message' = r[2]
           /\ pc' = IF r[1] THEN "validated" ELSE "rejected"
    /\ graph_data' = IF "edges" \in DOMAIN graph_data
                     THEN [graph_data EXCEPT !.edges = <<>>] ELSE graph_data
    /\ UNCHANGED <<graph, initial_flow, original_graph, source, sink,
                   flow, steps, max_flow, iteration, residual, path, bottleneck,
                   returned>>

\* GraphValidator.validate(graph_data) once more
Revalidate ==
    /\ pc \in {"validated", "rejected"}
    /\ UNCHANGED otherVars
    /\ LET r == GraphValidator_validate(graph_data)
       IN  /\ is_valid' = r[1]
           /\ message' = r[2]
           /\ pc' = IF r[1] THEN "validated" ELSE "rejected"
    /\ UNCHANGED <<graph_data, graph, initial_flow, original_graph, source, sink,
                   flow, steps, max_flow, iteration, residual, path, bottleneck,
                   returned>>

SpecInput ==
    (InitValidate \/ InitFromEdges) /\ [][Next \/ Revalidate \/ CallFromEdges]_vars

(***************************************************************************)
(* The orchestrator constructed by a caller that has not validated: the    *)
(* graph comes from GraphBuilder.from_edges, and source and sink are one   *)
(* and the same node.  run() does not return on such an object, so the     *)
(* passes of its loop are counted up to MaxIterations.                     *)
(***************************************************************************)
MaxIterations == 2

SameNodeDescs ==
    {[nodes |-> PoolNodes, edges |-> PoolList(caps, 1), source |-> n, sink |-> n] :
        caps \in [1..Len(PoolEdges) -> {0, 1}], n \in {"s", "b", "t"}}

InitSameNode ==
    /\ graph_data \in SameNodeDescs
    /\ pc = "built"
    /\ call = NoCall
    /\ session = initialize_session_state
    /\ accepted = NoDesc
    /\ clicks = 0
    /\ is_valid = FALSE
    /\ message = <<>>
    /\ graph = GraphBuilder_from_edges(graph_data.edges)[1]
    /\ initial_flow = GraphBuilder_from_edges(graph_data.edges)[2]
    /\ original_graph = EmptyDict
    /\ source = None
    /\ sink = None
    /\ flow = EmptyDict
    /\ steps = <<>>
    /\ max_flow = 0
    /\ iteration = 0
    /\ residual = EmptyDict
    /\ path = NoPath
    /\ bottleneck = 0
    /\ returned = None
    /\ result = None

NextSameNode ==
    \/ Construct
    \/ RunStart
    \/ (iteration < MaxIterations /\ Search)
    \/ Augment

SpecSameNode == InitSameNode /\ [][NextSameNode]_vars

TypeOK == pc \in {"created", "rejected", "validated", "built", "constructed",
                  "searching", "augmenting", "done", "call", "returned", "ui",
                  "bfs", "bfs_returned"}

LastStep == steps[Len(steps)]

Capacity(u, v) == Lookup2(original_graph, u, v)

RECURSIVE RowSum(_, _)
RowSum(row, j) == IF j > Len(row) THEN 0 ELSE row[j][2] + RowSum(row, j + 1)

\* the total capacity of the edges that leave u
OutCapacity(g, u) == IF Has(g, u) THEN RowSum(Lookup(g, u), 1) ELSE 0

(***************************************************************************)
(* C1: in every recorded Step of a run on an accepted graph, the flow      *)
(* snapshot has 0 <= flow[u][v] <= Graph[u][v] on every edge of Graph.     *)
(***************************************************************************)
C1_FlowWithinCapacity ==
    \A i \in 1..Len(steps) : \A e \in EdgeSet(original_graph) :
        /\ Has2(steps[i].flow, e[1], e[2])
        /\ 0 <= Lookup2(steps[i].flow, e[1], e[2])
        /\ Lookup2(steps[i].flow, e[1], e[2]) <= Capacity(e[1], e[2])

\* a Step after an augmentation with a saturated edge and a partly used edge
C1_Witness ==
    /\ is_valid
    /\ \E i \in 1..Len(steps) :
        /\ steps[i].type = "flow_updated"
        /\ \E e \in EdgeSet(original_graph) :
               Lookup2(steps[i].flow, e[1], e[2]) = Capacity(e[1], e[2])
        /\ \E e \in EdgeSet(original_graph) :
               /\ 0 < Lookup2(steps[i].flow, e[1], e[2])
               /\ Lookup2(steps[i].flow, e[1], e[2]) < Capacity(e[1], e[2])

(***************************************************************************)
(* C2: along the Step sequence max_flow never decreases; a flow_updated    *)
(* Step adds exactly its bottleneck, which is at least 1, to the max_flow  *)
(* of the Step before it, and every other Step repeats that max_flow.      *)
(***************************************************************************)
C2_MonotonicProgress ==
    \A i \in 2..Len(steps) :
        LET p == steps[i - 1]
            q == steps[i]
        IN  /\ q.max_flow >= p.max_flow
            /\ q.type = "flow_updated" =>
                   /\ q.bottleneck >= 1
                   /\ q.max_flow = p.max_flow + q.bottleneck
            /\ q.type # "flow_updated" => q.max_flow = p.max_flow

\* a finished run with two augmentations, one of them by more than 1
C2_Witness ==
    /\ pc = "done"
    /\ Cardinality({i \in 1..Len(steps) : steps[i].type = "flow_updated"}) >= 2
    /\ \E i \in 1..Len(steps) :
           steps[i].type = "flow_updated" /\ steps[i].bottleneck >= 2

(***************************************************************************)
(* C3: run() on an accepted graph terminates: the loop comes to a pass     *)
(* that finds no path, appends the complete Step and returns; every pass   *)
(* before that one finds a path and strictly increases max_flow.           *)
(* Stated as a bounded variant: a pass either returns or finds a path, a    *)
(* pass that finds a path strictly increases max_flow and leads to another *)
(* pass, max_flow never exceeds the capacity leaving the source, so that   *)
(* the passes are at most that capacity plus one; the return follows a     *)
(* complete Step, gives its max_flow and is final.                         *)
(***************************************************************************)
C3_Terminates ==
    [][/\ pc = "searching" => pc' \in {"augmenting", "done"}
       /\ pc = "augmenting" => max_flow' > max_flow /\ pc' = "searching"
       /\ pc = "done" => FALSE
       /\ pc' \in {"searching", "augmenting", "done"} =>
              /\ max_flow' <= OutCapacity(original_graph', source')
              /\ iteration' <= OutCapacity(original_graph', source') + 1
       /\ pc' = "done" =>
              /\ steps'[Len(steps')].type = "complete"
              /\ returned' = steps'[Len(steps')].max_flow
              /\ returned' = max_flow']_vars

\* a run that returned after three passes that found a path
C3_Witness ==
    /\ pc = "done"
    /\ LastStep.type = "complete"
    /\ LastStep.iteration = 4
    /\ returned > 0

(***************************************************************************)
(* C4 as stated: the iteration index recorded on the complete Step is at   *)
(* most the max_flow that run() returns.                                   *)
(***************************************************************************)
C4_Original ==
    pc = "done" => LastStep.iteration <= returned

(***************************************************************************)
(* C4 amended: the passes that found a path, one fewer than the iteration  *)
(* index recorded on the complete Step, are at most the returned max_flow. *)
(***************************************************************************)
C4_IterationBound ==
    pc = "done" => LastStep.iteration - 1 <= returned

\* a run whose every augmentation added 1: the bound is met with equality
C4_Witness ==
    /\ pc = "done"
    /\ returned >= 2
    /\ LastStep.iteration - 1 = returned

(***************************************************************************)
(* C5: ResidualGraph.compute(Graph, Flow) has exactly the edges of Graph   *)
(* with Graph[u][v] - Flow[u][v] > 0, each mapped to that difference, a    *)
(* missing Flow entry counting as 0, and no pair that is not an edge of    *)
(* Graph; the residual snapshot of every recorded Step is the residual of  *)
(* Graph and that Step's flow snapshot.                                    *)
(***************************************************************************)
NoKeyTwice(d) == \A i, j \in 1..Len(d) : d[i][1] = d[j][1] => i = j

IsResidualOf(res, g, f) ==
    /\ NoKeyTwice(res)
    /\ \A i \in 1..Len(res) : NoKeyTwice(res[i][2]) /\ res[i][2] # <<>>
    /\ EdgeSet(res) =
           {e \in EdgeSet(g) :
               Lookup2(g, e[1], e[2])
                 - (IF Has2(f, e[1], e[2]) THEN Lookup2(f, e[1], e[2]) ELSE 0) > 0}
    /\ \A e \in EdgeSet(res) :
           Lookup2(res, e[1], e[2]) =
               Lookup2(g, e[1], e[2])
                 - (IF Has2(f, e[1], e[2]) THEN Lookup2(f, e[1], e[2]) ELSE 0)

C5_ResidualCorrect ==
    /\ (pc = "returned" /\ call.fn = "compute") =>
           IsResidualOf(result, call.args[1], call.args[2])
    /\ \A i \in 1..Len(steps) :
           IsResidualOf(steps[i].residual, original_graph, steps[i].flow)

\* a direct call with a missing flow entry on an edge, a flow entry on a pair
\* that is no edge and a saturated edge
C5_Witness ==
    /\ pc = "returned" /\ call.fn = "compute"
    /\ \E e \in EdgeSet(call.args[1]) :
           ~Has2(call.args[2], e[1], e[2]) /\ Has2(result, e[1], e[2])
    /\ \E e \in EdgeSet(call.args[2]) : ~Has2(call.args[1], e[1], e[2])
    /\ \E e \in EdgeSet(call.args[1]) :
           /\ Has2(call.args[2], e[1], e[2])
           /\ Lookup2(call.args[2], e[1], e[2]) = Lookup2(call.args[1], e[1], e[2])

(***************************************************************************)
(* The bundled networks, the value of a maximum flow, reachability.        *)
(***************************************************************************)
IsExample(ex) == "name" \in DOMAIN graph_data /\ graph_data.name = ex.name

\* the total capacity in g of the edges of E
RECURSIVE CapacitySum(_, _)
CapacitySum(g, E) ==
    IF E = {} THEN 0
    ELSE LET e == CHOOSE x \in E : TRUE
         IN  Lookup2(g, e[1], e[2]) + CapacitySum(g, E \ {e})

\* the total capacity of the edges of g that go from S to outside S
CrossingCapacity(g, S) ==
    CapacitySum(g, {e \in EdgeSet(g) : e[1] \in S /\ e[2] \notin S})

\* the minimum capacity of a cut that separates src from snk, which is the
\* value of a maximum flow (max-flow min-cut theorem)
MinCutCapacity(g, src, snk) ==
    LET others == AllNodes(g) \ {src, snk}
        cuts == {CrossingCapacity(g, T \cup {src}) : T \in SUBSET others}
    IN  CHOOSE c \in cuts : \A d \in cuts : c <= d

\* the nodes reachable from src along the edges of res, as a least fixpoint
RECURSIVE Closure(_, _)
Closure(res, R) ==
    LET more == R \cup {e[2] : e \in {x \in EdgeSet(res) : x[1] \in R}}
    IN  IF more = R THEN R ELSE Closure(res, more)

ReachableIn(res, src, snk) == snk \in Closure(res, {src})

(***************************************************************************)
(* C6 as stated: for each of the four bundled networks, the cut_value on   *)
(* the complete Step equals the max_flow returned by run().                *)
(***************************************************************************)
C6_CutEqualsFlowOnExamples ==
    (pc = "done" /\ \E ex \in ExampleGraphs_get_all : IsExample(ex)) =>
        LastStep.cut_value = returned

(***************************************************************************)
(* C7 as stated: for every validated network, run() returns the value of  *)
(* a maximum flow, which is the minimum capacity over the cuts separating  *)
(* source from sink.                                                       *)
(***************************************************************************)
C7_ReturnsMaximumFlow ==
    pc = "done" => returned = MinCutCapacity(original_graph, source, sink)

(***************************************************************************)
(* C8: run() on a bundled network that declares an expected_max_flow       *)
(* returns it: 6 on the diamond network, 19 on each 7-node network.        *)
(***************************************************************************)
C8_ExpectedMaxFlow ==
    pc = "done" =>
        /\ "expected_max_flow" \in DOMAIN graph_data =>
               returned = graph_data.expected_max_flow
        /\ IsExample(ExampleDiamond) => returned = 6
        /\ IsExample(ExampleSeeded) => returned = 19
        /\ IsExample(ExampleZero) => returned = 19

\* the run on the 7-node network with seeded flows has returned
C8_Witness ==
    /\ pc = "done"
    /\ IsExample(ExampleSeeded)
    /\ graph_data.edges[1][4] > 0
    /\ returned = graph_data.expected_max_flow

(***************************************************************************)
(* C9: on the bundled textbook network every path_found Step is taken      *)
(* while t is reachable from s in the residual graph, the run ends with a  *)
(* complete Step exactly when t is not, and the returned max_flow equals   *)
(* the cut_value of the complete Step.                                     *)
(***************************************************************************)
C9_TextbookRun ==
    IsExample(ExampleTextbook) =>
        /\ \A i \in 1..Len(steps) :
               /\ steps[i].type = "path_found" =>
                      ReachableIn(steps[i].residual, source, sink)
               /\ steps[i].type = "complete" =>
                      /\ ~ReachableIn(steps[i].residual, source, sink)
                      /\ i = Len(steps)
                      /\ i > 2
        /\ pc = "searching" /\ Len(steps) > 1 => LastStep.type = "flow_updated"
        /\ pc = "done" =>
               /\ LastStep.type = "complete"
               /\ returned = LastStep.cut_value
               /\ returned = LastStep.max_flow

\* the run on the textbook network has returned after some augmentations
C9_Witness ==
    /\ pc = "done"
    /\ IsExample(ExampleTextbook)
    /\ \E i \in 1..Len(steps) : steps[i].type = "flow_updated"
    /\ LastStep.cut_value > 0

(***************************************************************************)
(* C10: GraphValidator.validate returns (true, "Graph is valid") iff all   *)
(* checks pass, and otherwise (false, reason) for the first failing check  *)
(* in the order: source or sink missing or empty; source = sink; source    *)
(* not in nodes; sink not in nodes; no edges; then edge by edge in list    *)
(* order: arity not 3 or 4, u not in nodes, v not in nodes, capacity <= 0, *)
(* initial_flow < 0, initial_flow > capacity.                              *)
(***************************************************************************)
DescSource == Get(graph_data, "source", None)
DescSink == Get(graph_data, "sink", None)
DescNodes == Range(Get(graph_data, "nodes", <<>>))
DescEdges == Get(graph_data, "edges", <<>>)

\* header check k fails on the description
HeaderFails(k) ==
    CASE k = 1 -> DescSource \in {None, ""} \/ DescSink \in {None, ""}
      [] k = 2 -> DescSource = DescSink
      [] k = 3 -> DescSource \notin DescNodes
      [] k = 4 -> DescSink \notin DescNodes
      [] k = 5 -> Len(DescEdges) = 0

HeaderReason(k) ==
    CASE k = 1 -> <<"Source or sink node not specified">>
      [] k = 2 -> <<"Source and sink must be different nodes">>
      [] k = 3 -> <<"Source node not found in graph", DescSource>>
      [] k = 4 -> <<"Sink node not found in graph", DescSink>>
      [] k = 5 -> <<"Graph has no edges">>

SeededFlow(e) == IF Len(e) = 4 THEN e[4] ELSE 0

\* edge check k fails on edge e; the checks after the arity check are about
\* triples and quadruples only
EdgeFails(e, k) ==
    CASE k = 1 -> Len(e) # 3 /\ Len(e) # 4
      [] k = 2 -> Len(e) \in {3, 4} /\ e[1] \notin DescNodes
      [] k = 3 -> Len(e) \in {3, 4} /\ e[2] \notin DescNodes
      [] k = 4 -> Len(e) \in {3, 4} /\ e[3] <= 0
      [] k = 5 -> Len(e) \in {3, 4} /\ SeededFlow(e) < 0
      [] k = 6 -> Len(e) \in {3, 4} /\ SeededFlow(e) > e[3]

EdgeReason(e, k) ==
    CASE k = 1 -> <<"Invalid edge format", e>>
      [] k = 2 -> <<"Edge references unknown node", e[1]>>
      [] k = 3 -> <<"Edge references unknown node", e[2]>>
      [] k = 4 -> <<"Edge has non-positive capacity", e[1], e[2], e[3]>>
      [] k = 5 -> <<"Edge has negative initial flow", e[1], e[2], SeededFlow(e)>>
      [] k = 6 -> <<"Edge has flow exceeding capacity", e[1], e[2], SeededFlow(e), e[3]>>

NoHeaderFailure == \A k \in 1..5 : ~HeaderFails(k)

NoEdgeFailure == \A i \in 1..Len(DescEdges) : \A k \in 1..6 : ~EdgeFails(DescEdges[i], k)

C10_FirstFailingCheck ==
    pc \in {"validated", "rejected"} =>
        /\ is_valid <=> (NoHeaderFailure /\ NoEdgeFailure)
        /\ is_valid <=> pc = "validated"
        /\ is_valid => message = <<"Graph is valid">>
        /\ \A k \in 1..5 :
               (HeaderFails(k) /\ \A j \in 1..(k - 1) : ~HeaderFails(j)) =>
                   ~is_valid /\ message = HeaderReason(k)
        /\ \A i \in 1..Len(DescEdges) : \A k \in 1..6 :
               (/\ NoHeaderFailure
                /\ \A h \in 1..(i - 1) : \A j \in 1..6 : ~EdgeFails(DescEdges[h], j)
                /\ \A j \in 1..(k - 1) : ~EdgeFails(DescEdges[i], j)
                /\ EdgeFails(DescEdges[i], k)) =>
                   ~is_valid /\ message = EdgeReason(DescEdges[i], k)

\* rejected for a capacity of 0 on the second edge, which also has a negative
\* seeded flow, after a first edge that passes
C10_Witness ==
    /\ pc = "rejected"
    /\ Len(DescEdges) = 2
    /\ \A k \in 1..6 : ~EdgeFails(DescEdges[1], k)
    /\ EdgeFails(DescEdges[2], 4) /\ EdgeFails(DescEdges[2], 5)
    /\ message[1] = "Edge has non-positive capacity"

\* rejected for source = sink although the node is not in nodes
C10_WitnessScenarioC ==
    /\ pc = "rejected"
    /\ DescSource = DescSink /\ DescSource \notin DescNodes
    /\ message = <<"Source and sink must be different nodes">>

\* g, src and snk are what the accepted description d builds
BuiltFrom(d, g, src, snk) ==
    /\ d # NoDesc
    /\ g = GraphBuilder_from_edges(d["edges"])[1]
    /\ src = d["source"]
    /\ snk = d["sink"]

(***************************************************************************)
(* C11 as stated: in any sequence of UI actions ff_graph_built is set, and  *)
(* the run button starts the orchestrator, only on a graph for which       *)
(* GraphValidator.validate has returned true: the installed graph, source  *)
(* and sink are those of the description accepted last.                    *)
(***************************************************************************)
C11_ValidatedBeforeUse ==
    /\ session.ff_graph_built =>
           BuiltFrom(accepted, session.ff_graph, session.ff_source, session.ff_sink)
    /\ pc \in {"constructed", "searching", "augmenting", "done"} =>
           BuiltFrom(accepted, original_graph, source, sink)

(***************************************************************************)
(* C12: the Steps of one run() on a validated graph are                    *)
(* initial (path_found flow_updated)* complete: the initial Step first     *)
(* with iteration 0, the k-th pair with iteration k and one path and       *)
(* bottleneck on both of its Steps, the complete Step last with iteration  *)
(* = number of pairs + 1; nothing follows the complete Step, and run()     *)
(* returns the max_flow recorded on it.                                    *)
(***************************************************************************)
C12_StepSequence ==
    /\ pc \in {"created", "rejected", "validated", "built", "constructed"} =>
           steps = <<>>
    /\ pc \in {"searching", "augmenting", "done"} =>
        /\ Len(steps) >= 1
        /\ steps[1].type = "initial"
        /\ steps[1].iteration = 0
        /\ \A i \in 2..Len(steps) :
            IF i % 2 = 0
            THEN /\ steps[i].iteration = i \div 2
                 /\ IF i = Len(steps) /\ pc = "done"
                    THEN steps[i].type = "complete"
                    ELSE steps[i].type = "path_found"
            ELSE /\ steps[i].type = "flow_updated"
                 /\ steps[i].iteration = (i - 1) \div 2
                 /\ steps[i].path = steps[i - 1].path
                 /\ steps[i].bottleneck = steps[i - 1].bottleneck
        /\ pc = "searching" => Len(steps) % 2 = 1
        /\ pc = "augmenting" => Len(steps) % 2 = 0
        /\ pc = "done" =>
            /\ Len(steps) % 2 = 0
            /\ LastStep.iteration = ((Len(steps) - 2) \div 2) + 1
            /\ returned = LastStep.max_flow

\* a finished run with two pairs before the complete Step
C12_Witness ==
    /\ pc = "done"
    /\ is_valid
    /\ Len(steps) = 6
    /\ steps[2].type = "path_found"
    /\ steps[5].type = "flow_updated"
    /\ steps[5].iteration = 2
    /\ steps[6].type = "complete"
    /\ steps[6].iteration = 3
    /\ returned = steps[6].max_flow

(***************************************************************************)
(* C13: once a Step is appended, its flow and residual snapshots never     *)
(* change, during the rest of the run and after run() has returned (a      *)
(* further run() included), although self.flow is updated in place.        *)
(***************************************************************************)
C13_SnapshotsFrozen ==
    [][\A i \in 1..Len(steps) :
           /\ i <= Len(steps')
           /\ steps'[i].flow = steps[i].flow
           /\ steps'[i].residual = steps[i].residual]_vars

\* a Step whose flow snapshot differs from the flow the object holds now,
\* seen after a second run() on the object
C13_Witness ==
    /\ pc = "done"
    /\ Invocations = 2
    /\ steps[1].flow # flow
    /\ steps[2].residual # residual
    /\ \E i \in 1..Len(steps) : steps[i].type = "flow_updated" /\ steps[i].flow # flow

\* the main loop of run() from flow f on: <<max_flow, steps>>
RECURSIVE run_loop(_, _, _, _, _, _, _)
run_loop(g, src, snk, f, mf, iter, acc) ==
    LET res == ResidualGraph_compute(g, f)
        found == PathFinder_bfs_find_path(res, src, snk)
        p == PathFinder_reconstruct_path(found[2], src, snk)
        b == PathFinder_compute_bottleneck(p, res)
        f2 == augment_loop(f, p, b, 1)
    IN  IF ~found[1]
        THEN <<mf, Append(acc, CompleteStep(iter, f, res, mf,
                       MinimumCut_find(g, f, src,
                           CHOOSE order \in Orders(CutTails(g, f, src)) : TRUE)))>>
        ELSE run_loop(g, src, snk, f2, Plus(mf, b), iter + 1,
                 Append(Append(acc, Step("path_found", iter, f, res, p, b, mf)),
                        Step("flow_updated", iter, f2, ResidualGraph_compute(g, f2),
                             p, b, Plus(mf, b))))

\* FordFulkersonAlgorithm(g, src, snk).run() with its Steps
FordFulkersonAlgorithm_run(g, src, snk) ==
    run_loop(g, src, snk, ZeroFlow(g), 0, 1,
        <<Step("initial", 0, ZeroFlow(g), ResidualGraph_compute(g, ZeroFlow(g)),
               NoPath, 0, 0)>>)

\* a Step with its cut edges as a set
CutAsSet(st) ==
    IF st.type = "complete" THEN [st EXCEPT !.min_cut_edges = Range(@)] ELSE st

(***************************************************************************)
(* C14: the trace is a function of the input: any execution of run() on a  *)
(* given graph, source and sink returns the max_flow and records the Steps *)
(* (kinds, iterations, paths, bottlenecks, flow and residual snapshots,    *)
(* partitions, cut edge set, cut value) of every other execution.  Each    *)
(* execution is compared with one more execution of run() on the same      *)
(* input, run_loop, whose loop over source_partition takes some order.     *)
(***************************************************************************)
C14_Deterministic ==
    pc = "done" =>
        LET other == FordFulkersonAlgorithm_run(original_graph, source, sink)
        IN  /\ returned = other[1]
            /\ Len(steps) = Len(other[2])
            /\ \A i \in 1..Len(steps) : CutAsSet(steps[i]) = CutAsSet(other[2][i])

\* two executions with augmentations whose cut edge lists differ in order
C14_Witness ==
    /\ pc = "done"
    /\ Len(steps) >= 4
    /\ LET other == FordFulkersonAlgorithm_run(original_graph, source, sink)
       IN  /\ LastStep.min_cut_edges # other[2][Len(other[2])].min_cut_edges
           /\ Range(LastStep.min_cut_edges) = Range(other[2][Len(other[2])].min_cut_edges)

\* the edges of g that flow f leaves room on
PositiveEdges(g, f) ==
    {e \in EdgeSet(g) : Lookup2(g, e[1], e[2]) - FlowAt(f, e[1], e[2]) > 0}

\* the nodes reachable from R along the edges of E
RECURSIVE ReachSet(_, _)
ReachSet(E, R) ==
    LET more == R \cup {e[2] : e \in {x \in E : x[1] \in R}}
    IN  IF more = R THEN R ELSE ReachSet(E, more)

Endpoints(g) == UNION {{e[1], e[2]} : e \in EdgeSet(g)}

(***************************************************************************)
(* C15: MinimumCut.find(Graph, Flow, source) returns S = the nodes         *)
(* reachable from source, source included, along edges with                *)
(* Graph[u][v] - Flow[u][v] > 0; T = the endpoints of Graph edges that are *)
(* not in S; cut_edges = the Graph edges from S to T, each once; and       *)
(* cut_value = the sum of the capacities Graph[u][v] of those edges.       *)
(***************************************************************************)
C15_MinimumCutFind ==
    (pc = "returned" /\ call.fn = "find") =>
        LET g == call.args[1]
            S == ReachSet(PositiveEdges(g, call.args[2]), {call.args[3]})
            T == Endpoints(g) \ S
            X == {e \in EdgeSet(g) : e[1] \in S /\ e[2] \in T}
        IN  /\ result[2] = S
            /\ result[3] = T
            /\ Range(result[1]) = X
            /\ Len(result[1]) = Cardinality(X)
            /\ result[4] = CapacitySum(g, X)

\* a cut of two saturated edges with different tails behind a source side
\* of three nodes, one of whose inner edges is partly used
C15_Witness ==
    /\ pc = "returned"
    /\ call.fn = "find"
    /\ result[2] = {"s", "a", "b"}
    /\ result[3] = {"t"}
    /\ Len(result[1]) = 2
    /\ result[1][1][1] # result[1][2][1]
    /\ result[4] = 2
    /\ Lookup2(call.args[1], "s", "a") = MaxCap
    /\ FlowAt(call.args[2], "s", "a") = 1

(***************************************************************************)
(* C16 as stated: on the complete Step of a run on a graph the validator   *)
(* accepted, source_partition and sink_partition are disjoint, source is   *)
(* in source_partition and sink is in sink_partition.                      *)
(***************************************************************************)
C16_SourceSinkPartition ==
    (pc = "done" /\ is_valid) =>
        /\ LastStep.source_partition \cap LastStep.sink_partition = {}
        /\ source \in LastStep.source_partition
        /\ sink \in LastStep.sink_partition

NoRepeat(s) == \A i, j \in 1..Len(s) : i # j => s[i] # s[j]

(***************************************************************************)
(* C17: bfs_find_path(Residual, source, sink) returns found = true iff     *)
(* sink is reachable from source along edges of Residual with capacity     *)
(* > 0, taking each node off the queue at most once; when found,           *)
(* reconstruct_path(parent, source, sink) starts at source, ends at sink,  *)
(* repeats no node, and each consecutive pair of it is an edge of Residual *)
(* with capacity > 0.                                                      *)
(***************************************************************************)
C17_SearchFindsPath ==
    call.fn = "bfs" =>
        LET res == call.args[1]
            src == call.args[2]
            snk == call.args[3]
            E == {e \in EdgeSet(res) : Lookup2(res, e[1], e[2]) > 0}
        IN  /\ pc \in {"bfs", "bfs_returned", "returned"} =>
                   NoRepeat(result.dequeued)
            /\ pc \in {"bfs_returned", "returned"} =>
                /\ result.path_exists <=> snk \in ReachSet(E, {src})
                /\ PathFinder_bfs_find_path(res, src, snk)
                       = <<result.path_exists, result.parent>>
            /\ pc = "returned" =>
                /\ Len(result.path) >= 1
                /\ result.path[1] = src
                /\ result.path[Len(result.path)] = snk
                /\ NoRepeat(result.path)
                /\ \A i \in 1..(Len(result.path) - 1) :
                       <<result.path[i], result.path[i + 1]>> \in E

\* a path of three edges found in a map that has a cycle and an entry of
\* capacity 0 towards the sink
C17_Witness ==
    /\ call.fn = "bfs"
    /\ pc = "returned"
    /\ result.path = <<"s", "a", "b", "t">>
    /\ Has2(call.args[1], "b", "a")
    /\ Lookup2(call.args[1], "b", "a") > 0
    /\ Has2(call.args[1], "a", "t")
    /\ Lookup2(call.args[1], "a", "t") = 0

\* the sink cannot be reached although entries of capacity 0 lead to it
C17_WitnessNotFound ==
    /\ call.fn = "bfs"
    /\ pc = "bfs_returned"
    /\ ~result.path_exists
    /\ Len(result.dequeued) = 3
    /\ Has2(call.args[1], "b", "t")
    /\ Has2(call.args[1], "a", "t")

\* the path is too short or leaves the edges of residual_graph
BadPath(p, residual_graph) ==
    \/ Len(p) < 2
    \/ \E i \in 1..(Len(p) - 1) : ~Has2(residual_graph, p[i], p[i + 1])

(***************************************************************************)
(* C18 as stated: compute_bottleneck(path, Residual) fails, with an error  *)
(* outcome rather than a value, whenever path has fewer than 2 nodes or    *)
(* has a consecutive pair that is not an edge of Residual, and it leaves   *)
(* Residual unchanged.                                                     *)
(***************************************************************************)
C18_FailsOnBadPath ==
    (pc = "returned" /\ call.fn = "bottleneck") =>
        /\ BadPath(call.args[1], call.args[2]) => result.outcome = "error"
        /\ result.residual_graph = call.args[2]

(***************************************************************************)
(* C19 as stated: state does not carry over between run() invocations:     *)
(* every invocation, a second one on the same object included, starts from *)
(* zero flow and an empty step history, and yields the max_flow and the    *)
(* Steps of a first invocation on a freshly constructed object for the     *)
(* same Graph, source and sink.                                            *)
(***************************************************************************)
C19_NoCarryOver ==
    LET fresh == FordFulkersonAlgorithm_run(original_graph, source, sink)
    IN  /\ \A i \in 1..Len(steps) :
               steps[i].type = "initial" =>
                   /\ i = 1
                   /\ steps[i].flow = ZeroFlow(original_graph)
        /\ pc = "done" =>
               /\ returned = fresh[1]
               /\ Len(steps) = Len(fresh[2])
               /\ \A i \in 1..Len(steps) : CutAsSet(steps[i]) = CutAsSet(fresh[2][i])

\* a step taken once the object is constructed
GraphKept ==
    pc \in {"constructed", "searching", "augmenting", "done"} =>
        /\ original_graph' = original_graph
        /\ original_graph' = graph
        /\ graph' = graph
        /\ graph' = GraphBuilder_from_edges(graph_data["edges"])[1]

(***************************************************************************)
(* C20: run() never changes Graph: the orchestrator's capacity map keeps   *)
(* the edges and capacities it was constructed with, and the graph object  *)
(* of the caller is unchanged as well.                                     *)
(***************************************************************************)
C20_GraphUnchanged == [][GraphKept]_vars

\* a finished second invocation with augmentations in the first, on a graph
\* with a saturated and a partly used edge
C20_Witness ==
    /\ pc = "done"
    /\ Invocations = 2
    /\ original_graph = graph
    /\ \E e \in EdgeSet(graph) : FlowAt(flow, e[1], e[2]) = Lookup2(graph, e[1], e[2])
    /\ \E e \in EdgeSet(graph) :
           /\ 0 < FlowAt(flow, e[1], e[2])
           /\ FlowAt(flow, e[1], e[2]) < Lookup2(graph, e[1], e[2])

\* the index of the last entry of edges_list for the pair (u, v)
LastEntry(edges_list, u, v) ==
    CHOOSE i \in 1..Len(edges_list) :
        /\ edges_list[i][1] = u /\ edges_list[i][2] = v
        /\ \A j \in (i + 1)..Len(edges_list) :
               ~(edges_list[j][1] = u /\ edges_list[j][2] = v)

(***************************************************************************)
(* C21: GraphBuilder.from_edges(edges) returns (Graph, Flow) with the same *)
(* edge set, the pairs that occur in edges and no other; Graph[u][v] and   *)
(* Flow[u][v] are the capacity and the initial_flow (0 for a triple) of    *)
(* the last entry for (u, v) in the list.                                  *)
(***************************************************************************)
C21_LastWriteWins ==
    (pc = "returned" /\ call.fn = "from_edges") =>
        LET edges_list == call.args[1]
            pairs == {<<edges_list[i][1], edges_list[i][2]>> : i \in 1..Len(edges_list)}
        IN  /\ EdgeSet(result[1]) = pairs
            /\ EdgeSet(result[2]) = pairs
            /\ Len(EdgeSeq(result[1])) = Cardinality(pairs)
            /\ Len(EdgeSeq(result[2])) = Cardinality(pairs)
            /\ \A p \in pairs :
                   LET last == edges_list[LastEntry(edges_list, p[1], p[2])]
                   IN  /\ Lookup2(result[1], p[1], p[2]) = last[3]
                       /\ Lookup2(result[2], p[1], p[2]) =
                              IF Len(last) = 3 THEN 0 ELSE last[4]

\* a pair entered first as a quadruple and last as a triple of another
\* capacity, with another pair in between
C21_Witness ==
    /\ pc = "returned"
    /\ call.fn = "from_edges"
    /\ call.args[1] = << <<"s", "a", 1, 1>>, <<"a", "t", 1>>, <<"s", "a", MaxCap>> >>
    /\ Lookup2(result[1], "s", "a") = MaxCap
    /\ Lookup2(result[2], "s", "a") = 0

\* a step from a judged description to a judged description is a further
\* call of validate; it returns what the call before it returned and leaves
\* the description as it was
ValidateAgain ==
    (pc \in {"validated", "rejected"} /\ pc' \in {"validated", "rejected"}) =>
        /\ is_valid' = is_valid
        /\ message' = message
        /\ pc' = pc
        /\ graph_data' = graph_data
        /\ (is_valid => message' = <<"Graph is valid">>)

C22_WitnessRejected ==
    /\ pc = "rejected"
    /\ ~is_valid
    /\ GraphValidator_validate(graph_data) = <<FALSE, message>>

\* how often u, v are consecutive nodes of the path p
PairCount(p, u, v) ==
    Cardinality({k \in 1..(Len(p) - 1) : p[k] = u /\ p[k + 1] = v})

(***************************************************************************)
(* C23: a flow_updated Step follows the path_found Step of its iteration   *)
(* and records the same path and bottleneck; its flow snapshot is that of  *)
(* the path_found Step plus bottleneck on every consecutive pair of the    *)
(* path and is the same on every other edge of Graph.  The path_found Step *)
(* records the flow and max_flow of the Step before it.                    *)
(***************************************************************************)
C23_AugmentFrame ==
    \A i \in 2..Len(steps) :
        /\ steps[i].type = "flow_updated" =>
              /\ steps[i - 1].type = "path_found"
              /\ steps[i].iteration = steps[i - 1].iteration
              /\ steps[i].path = steps[i - 1].path
              /\ steps[i].bottleneck = steps[i - 1].bottleneck
              /\ steps[i].max_flow = steps[i - 1].max_flow + steps[i].bottleneck
              /\ EdgeSet(steps[i].flow) = EdgeSet(original_graph)
              /\ \A e \in EdgeSet(original_graph) :
                     Lookup2(steps[i].flow, e[1], e[2]) =
                         Lookup2(steps[i - 1].flow, e[1], e[2])
                         + steps[i].bottleneck * PairCount(steps[i].path, e[1], e[2])
              /\ \A k \in 1..(Len(steps[i].path) - 1) :
                     <<steps[i].path[k], steps[i].path[k + 1]>> \in EdgeSet(original_graph)
        /\ steps[i].type = "path_found" =>
              /\ steps[i].flow = steps[i - 1].flow
              /\ steps[i].max_flow = steps[i - 1].max_flow

\* the second augmentation of a run: an edge of its path already carried
\* flow, an edge off the path carries flow and keeps it
C23_Witness ==
    /\ Len(steps) >= 5
    /\ steps[5].type = "flow_updated"
    /\ steps[5].bottleneck >= 1
    /\ \E e \in EdgeSet(original_graph) :
           /\ PairCount(steps[5].path, e[1], e[2]) = 1
           /\ Lookup2(steps[4].flow, e[1], e[2]) >= 1
    /\ \E e \in EdgeSet(original_graph) :
           /\ PairCount(steps[5].path, e[1], e[2]) = 0
           /\ Lookup2(steps[4].flow, e[1], e[2]) >= 1
           /\ Lookup2(steps[5].flow, e[1], e[2]) = Lookup2(steps[4].flow, e[1], e[2])

\* the residual capacities the Step records for the edges of its path
PathResiduals(st) ==
    {ResidualAt(st.residual, st.path[k], st.path[k + 1]) : k \in 1..(Len(st.path) - 1)}

(***************************************************************************)
(* C24: on every path_found Step of a run on a validated graph, bottleneck *)
(* is an integer >= 1 and is the minimum, over the consecutive pairs       *)
(* (u, v) of the Step's path, of the Step's residual[u][v].                *)
(***************************************************************************)
C24_BottleneckIsPathMinimum ==
    \A i \in 1..Len(steps) :
        steps[i].type = "path_found" =>
            /\ steps[i].bottleneck \in Int
            /\ steps[i].bottleneck >= 1
            /\ steps[i].bottleneck < Inf
            /\ steps[i].bottleneck \in PathResiduals(steps[i])
            /\ \A x \in PathResiduals(steps[i]) : steps[i].bottleneck <= x

\* a path_found Step whose path has its narrowest edge between two wider ones
C24_Witness ==
    /\ Len(steps) >= 2
    /\ LastStep.type = "path_found"
    /\ Len(LastStep.path) = 4
    /\ LastStep.bottleneck = 1
    /\ ResidualAt(LastStep.residual, LastStep.path[1], LastStep.path[2]) = MaxCap
    /\ ResidualAt(LastStep.residual, LastStep.path[2], LastStep.path[3]) = 1
    /\ ResidualAt(LastStep.residual, LastStep.path[3], LastStep.path[4]) = MaxCap

\* run() on a new orchestrator for the graph from_edges builds of the edge
\* list edges
RunOnEdges(edges, src, snk) ==
    FordFulkersonAlgorithm_run(GraphBuilder_from_edges(edges)[1], src, snk)

\* the run other returned the value and recorded the Steps of run
SameRun(run, other) ==
    /\ run[1] = other[1]
    /\ Len(run[2]) = Len(other[2])
    /\ [i \in 1..Len(run[2]) |-> CutAsSet(run[2][i])]
           = [i \in 1..Len(run[2]) |-> CutAsSet(other[2][i])]

(***************************************************************************)
(* C25: every run starts from zero flow: its first Step is the initial     *)
(* Step, with iteration 0, max_flow 0, no path, bottleneck 0 and flow 0 on *)
(* every edge of Graph, whatever initial_flow the entries of the edge list *)
(* carried; the run on the seeded 7-node example records the Steps and     *)
(* returns the value of the run on the zero-flow 7-node example.           *)
(***************************************************************************)
C25_StartsFromZeroFlow ==
    /\ Len(steps) >= 1 =>
           /\ steps[1].type = "initial"
           /\ steps[1].iteration = 0
           /\ steps[1].max_flow = 0
           /\ steps[1].path = NoPath
           /\ steps[1].bottleneck = 0
           /\ EdgeSet(steps[1].flow) = EdgeSet(original_graph)
           /\ \A e \in EdgeSet(original_graph) : Lookup2(steps[1].flow, e[1], e[2]) = 0
    /\ (IsExample(ExampleSeeded) /\ pc = "done") =>
           SameRun(<<returned, steps>>,
                   RunOnEdges(ExampleZero.edges, ExampleZero.source, ExampleZero.sink))

\* the run on the seeded 7-node example has returned; the edge list gave
\* flow 4 to an edge on which the initial Step records 0
C25_Witness ==
    /\ pc = "done"
    /\ IsExample(ExampleSeeded)
    /\ Lookup2(initial_flow, "s", "a") = 4
    /\ Lookup2(steps[1].flow, "s", "a") = 0
    /\ steps[1].type = "initial"
    /\ Len(steps) = Len(RunOnEdges(ExampleZero.edges, ExampleZero.source,
                                   ExampleZero.sink)[2])

\* sink cannot be reached from source along the edges of Graph
SinkUnreachable ==
    sink \notin ReachSet(EdgeSet(original_graph), {source})

(***************************************************************************)
(* C26: when sink is not reachable from source along the edges of Graph    *)
(* (source # sink; sink or source may have no incident edge), run()        *)
(* returns 0 and records exactly two Steps: the initial Step, then a       *)
(* complete Step with iteration 1, flow 0 on every edge, max_flow 0 and    *)
(* cut_value 0.  No pass of the loop finds a path.                         *)
(***************************************************************************)
C26_UnreachableSink ==
    (pc \in {"searching", "augmenting", "done"} /\ source # sink /\ SinkUnreachable) =>
        /\ pc # "augmenting"
        /\ Len(steps) <= 2
        /\ steps[1].type = "initial"
        /\ pc = "searching" => Len(steps) = 1
        /\ pc = "done" =>
               /\ returned = 0
               /\ Len(steps) = 2
               /\ steps[2].type = "complete"
               /\ steps[2].iteration = 1
               /\ steps[2].max_flow = 0
               /\ steps[2].cut_value = 0
               /\ steps[2].min_cut_edges = <<>>
               /\ \A e \in EdgeSet(original_graph) :
                      Lookup2(steps[2].flow, e[1], e[2]) = 0

\* the run has returned on a graph with edges where the source has no edge
C26_Witness ==
    /\ pc = "done"
    /\ SinkUnreachable
    /\ ~Has(original_graph, source)
    /\ EdgeSet(original_graph) # {}
    /\ Len(steps) = 2
    /\ returned = 0

\* the run has returned on a graph where edges leave the source and no edge
\* enters the sink
C26_WitnessIsolatedSink ==
    /\ pc = "done"
    /\ SinkUnreachable
    /\ Has(original_graph, source)
    /\ sink \notin AllNodes(original_graph)
    /\ Len(steps) = 2
    /\ LastStep.cut_value = 0

\* the total of flow f over the edges of E
RECURSIVE FlowSum(_, _)
FlowSum(f, E) ==
    IF E = {} THEN 0
    ELSE LET e == CHOOSE x \in E : TRUE
         IN  FlowAt(f, e[1], e[2]) + FlowSum(f, E \ {e})

\* the flow that enters node n and the flow that leaves it, on the edges E
InFlow(f, E, n) == FlowSum(f, {e \in E : e[2] = n})

OutFlow(f, E, n) == FlowSum(f, {e \in E : e[1] = n})

\* flow f over the edges E is conserved at the nodes of N other than source
\* and sink, and the source sends mf more than it receives
ConservesFlow(f, mf, E, N) ==
    /\ \A n \in N \ {source, sink} : InFlow(f, E, n) = OutFlow(f, E, n)
    /\ OutFlow(f, E, source) - InFlow(f, E, source) = mf

(***************************************************************************)
(* C27: flow conservation.  In every Step of a run on a validated graph,   *)
(* at every node other than source and sink the flow that enters on Graph  *)
(* edges equals the flow that leaves, and the flow that leaves source less *)
(* the flow that enters source is the Step's max_flow.                     *)
(***************************************************************************)
C27_FlowConservation ==
    \A i \in 1..Len(steps) :
        ConservesFlow(steps[i].flow, steps[i].max_flow,
                      EdgeSet(original_graph), AllNodes(original_graph))

\* n passes on flow that reached it by two edges of E
Junction(f, E, n) ==
    /\ InFlow(f, E, n) >= 2
    /\ Cardinality({e \in E : e[2] = n /\ FlowAt(f, e[1], e[2]) >= 1}) = 2
    /\ InFlow(f, E, n) = OutFlow(f, E, n)

\* after two augmentations a node passes on flow that reached it by two
\* edges, and the source has sent the Step's max_flow
C27_Witness ==
    /\ Len(steps) >= 5
    /\ LastStep.type = "flow_updated"
    /\ LastStep.max_flow >= 2
    /\ OutFlow(LastStep.flow, EdgeSet(original_graph), source) = LastStep.max_flow
    /\ \E n \in AllNodes(original_graph) \ {source, sink} :
           Junction(LastStep.flow, EdgeSet(original_graph), n)

\* the Graph edges that lead from the sink partition of the complete Step
\* st back into its source partition
BackCrossing(st) ==
    {e \in EdgeSet(original_graph) :
        e[1] \in st.sink_partition /\ e[2] \in st.source_partition}

(***************************************************************************)
(* C28: on the complete Step every edge of min_cut_edges is saturated in   *)
(* the final flow, and cut_value - max_flow is the total final flow on the *)
(* Graph edges from sink_partition into source_partition; so cut_value >=  *)
(* max_flow, with equality exactly when no such edge carries flow.         *)
(***************************************************************************)
C28_CutAccounting ==
    \A i \in 1..Len(steps) :
        steps[i].type = "complete" =>
            /\ \A k \in 1..Len(steps[i].min_cut_edges) :
                   LET e == steps[i].min_cut_edges[k]
                   IN  FlowAt(steps[i].flow, e[1], e[2]) = Capacity(e[1], e[2])
            /\ steps[i].cut_value - steps[i].max_flow
                   = FlowSum(steps[i].flow, BackCrossing(steps[i]))
            /\ steps[i].cut_value >= steps[i].max_flow
            /\ steps[i].cut_value = steps[i].max_flow
                   <=> \A e \in BackCrossing(steps[i]) :
                           FlowAt(steps[i].flow, e[1], e[2]) = 0

\* a run ends with flow on an edge that leads back into the source
\* partition: the cut is worth more than the flow
C28_Witness ==
    /\ pc = "done"
    /\ LastStep.type = "complete"
    /\ \E e \in BackCrossing(LastStep) : FlowAt(LastStep.flow, e[1], e[2]) >= 1
    /\ LastStep.cut_value > LastStep.max_flow
    /\ LastStep.max_flow >= 1

\* a run ends with two saturated cut edges and no flow back across the cut
C28_WitnessEqual ==
    /\ pc = "done"
    /\ LastStep.type = "complete"
    /\ Len(LastStep.min_cut_edges) = 2
    /\ BackCrossing(LastStep) # {}
    /\ LastStep.cut_value = LastStep.max_flow
    /\ LastStep.max_flow >= 2

\* edge e is saturated in the flow snapshot of Step st
Saturated(st, e) == FlowAt(st.flow, e[1], e[2]) = Capacity(e[1], e[2])

FlowUpdates == {i \in 1..Len(steps) : steps[i].type = "flow_updated"}

(***************************************************************************)
(* C29: from Step to Step the flow on an edge never decreases, and an edge *)
(* that is saturated stays saturated and is in no later residual graph;    *)
(* every augmentation saturates an edge that was not saturated before it;  *)
(* so a run records at most as many flow_updated Steps as Graph has edges. *)
(***************************************************************************)
C29_AugmentationsBounded ==
    /\ \A i \in 2..Len(steps) : \A e \in EdgeSet(original_graph) :
           /\ FlowAt(steps[i - 1].flow, e[1], e[2]) <= FlowAt(steps[i].flow, e[1], e[2])
           /\ Saturated(steps[i - 1], e) =>
                  /\ Saturated(steps[i], e)
                  /\ ~Has2(steps[i].residual, e[1], e[2])
    /\ \A i \in FlowUpdates :
           \E e \in EdgeSet(original_graph) :
               /\ ~Saturated(steps[i - 1], e)
               /\ Saturated(steps[i], e)
               /\ PairCount(steps[i].path, e[1], e[2]) = 1
    /\ Cardinality(FlowUpdates) <= Cardinality(EdgeSet(original_graph))

\* a run of three augmentations has returned: an edge saturated by the
\* first of them is in the residual graph of the initial Step and in none
\* after, and an edge of capacity MaxCap was filled in two augmentations
C29_Witness ==
    /\ pc = "done"
    /\ Cardinality(FlowUpdates) = 3
    /\ \E e \in EdgeSet(original_graph) :
           /\ Has2(steps[1].residual, e[1], e[2])
           /\ Saturated(steps[3], e)
           /\ \A i \in 3..Len(steps) : ~Has2(steps[i].residual, e[1], e[2])
    /\ \E e \in EdgeSet(original_graph) :
           /\ Capacity(e[1], e[2]) = MaxCap
           /\ FlowAt(steps[3].flow, e[1], e[2]) = 1
           /\ Saturated(LastStep, e)

(***************************************************************************)
(* C30: on an orchestrator constructed with source = sink, run() never     *)
(* reaches a complete Step and never returns: at the head of every pass of *)
(* the loop the search reports a path, the single node source; no flow     *)
(* changes; every pass appends a path_found and a flow_updated Step.       *)
(***************************************************************************)
C30_SameNodeNeverCompletes ==
    (source # None /\ source = sink) =>
        /\ pc # "done"
        /\ returned = None
        /\ flow = ZeroFlow(original_graph)
        /\ pc = "searching" =>
               /\ PathFinder_bfs_find_path(
                      ResidualGraph_compute(original_graph, flow), source, sink)[1]
               /\ Len(steps) = 1 + 2 * iteration
        /\ pc = "augmenting" => Len(steps) = 2 * iteration
        /\ \A i \in 1..Len(steps) :
               /\ steps[i].type # "complete"
               /\ steps[i].flow = ZeroFlow(original_graph)
               /\ i >= 2 =>
                      /\ steps[i].type = (IF i % 2 = 0 THEN "path_found" ELSE "flow_updated")
                      /\ steps[i].iteration = i \div 2
                      /\ steps[i].path = <<source>>
                      /\ steps[i].bottleneck = Inf

\* two passes of the loop are over on a graph with edges at the node that
\* is source and sink, and the third is about to find a path again
C30_Witness ==
    /\ source = sink
    /\ source \in AllNodes(original_graph)
    /\ pc = "searching"
    /\ iteration = 2
    /\ Len(steps) = 5
    /\ LastStep.type = "flow_updated"
    /\ LastStep.path = <<source>>
    /\ PathFinder_bfs_find_path(
           ResidualGraph_compute(original_graph, flow), source, sink)[1]

====
